---- MODULE Spec2Model ----
(***************************************************************************)
(* A model of distributed-a2a: the registry server (bootstrap.py) over its *)
(* two storage backends (in_memory_registry_storage.py, dynamo_db.py) and  *)
(* the two task executors (executors.py).  It also covers the tool-server  *)
(* registry (InMemoryMcpRegistry, DynamoDbMcpRegistryLookup) behind the    *)
(* /mcp endpoints, and the heartbeat loop of registry.py.                  *)
(*                                                                         *)
(* Every registry request is applied to two deployments of the registry    *)
(* server side by side, one per backend: `agents` is the dict of the       *)
(* InMemoryAgentRegistry, `agent_card_table` is the table of the           *)
(* DynamoDbAgentRegistryLookup, and `last` holds the last request with the *)
(* response of each deployment.                                            *)
(***************************************************************************)
EXTENDS Integers, Sequences, FiniteSets, TLC

VARIABLES
    agents,            \* InMemoryAgentRegistry._agents: an insertion-ordered dict
    agent_card_table,  \* DynamoDbAgentRegistryLookup.table: a set of items keyed by "id"
    registered,        \* history: the names some PUT /agent-card/{name} has registered
    now,               \* the wall clock the expire_at timestamps are read against
    last,              \* the last registry request answered and the response of each
                       \* deployment; none once a request that is still served was sent
    tasks,             \* the execute() calls: one record per task
    self_agent,        \* RoutingAgentExecutor.agent: the StatusAgent instance the attempts call
    last_cancel,       \* the last cancel() call on an executor and how it ended
    servers,           \* InMemoryMcpRegistry._servers: an insertion-ordered dict
    allowed_agents,    \* InMemoryMcpRegistry._allowed_agents: an insertion-ordered dict of sets
    mcp_table,         \* DynamoDbMcpRegistryLookup.table: a set of items keyed by "id"
    calls,             \* the registry requests whose handler threads are running
    loops              \* the registry_heart_beat coroutines: one record per loop

mcp_vars == <<servers, allowed_agents, mcp_table, calls>>
vars == <<agents, agent_card_table, registered, now, last, tasks, self_agent, last_cancel, mcp_vars, loops>>

\* A StatusAgent instance of the RoutingAgentExecutor: the one __init__ builds
\* (built_by = 0, no MCP tools), or the one reinitialize_agent_with_tools of
\* task `built_by` builds with the tools of the servers it found.
StatusAgent(built_by, tools) == [built_by |-> built_by, tools |-> tools]

---------------------------------------------------------------------------
(* Bounds of the model. *)

\* expire_at values are 1..MaxTime; the clock runs from 0 to MaxTime + 1.
MaxTime == 2
\* The number of tasks (execute calls); tasks run concurrently.
MaxTasks == 1
\* The number of registry requests whose handler threads run at a time.
MaxCalls == 2

AgentNames == {"alpha", "beta"}
Descriptions == {"d1", "d2"}
ExpireAts == 1..MaxTime

---------------------------------------------------------------------------
(* Python values.  An Optional is a sequence of length 0 (None) or 1; a    *)
(* value whose Python type matters is tagged with its type.                *)

None == <<>>
Some(x) == <<x>>

PyDict(d) == [t |-> "dict", d |-> d]
PyStr(s) == [t |-> "str", s |-> s]
PyNone == [t |-> "None"]
PyList == [t |-> "list"]
JSONDecodeError == [t |-> "JSONDecodeError"]

\* A call returns a value or raises.
Return(v) == [exc |-> "", val |-> v]
Raise(e) == [exc |-> e, val |-> <<>>]

\* An agent card, as a Python dict: the keys in insertion order are name, description.
Card(n, d) == [name |-> n, description |-> d]

\* The JSON objects of the model: cards, and one object without a "name".
JsonObjects ==
    {Card(n, d) : n \in AgentNames \cup {"ghost"}, d \in Descriptions}
        \cup {[description |-> "d1"]}

\* json.dumps of a dict: ", " and ": " separators, keys in insertion order.
json_dumps(d) ==
    IF DOMAIN d = {"name", "description"}
    THEN "{\"name\": \"" \o d.name \o "\", \"description\": \"" \o d.description \o "\"}"
    ELSE IF DOMAIN d = {"description"}
    THEN "{\"description\": \"" \o d.description \o "\"}"
    ELSE "{}"

\* pydantic's model_dump_json: the compact form, no space after "," and ":".
model_dump_json(d) ==
    IF DOMAIN d = {"name", "description"}
    THEN "{\"name\":\"" \o d.name \o "\",\"description\":\"" \o d.description \o "\"}"
    ELSE IF DOMAIN d = {"description"}
    THEN "{\"description\":\"" \o d.description \o "\"}"
    ELSE "{}"

\* json.loads on the texts of the model: an object in either spacing, a JSON
\* string, null, an array; any other text (a bare word, the empty string) is
\* a JSONDecodeError.
json_loads(s) ==
    IF \E d \in JsonObjects : s \in {json_dumps(d), model_dump_json(d)}
    THEN PyDict(CHOOSE d \in JsonObjects : s \in {json_dumps(d), model_dump_json(d)})
    ELSE IF \E w \in AgentNames \cup {"ghost"} : s = "\"" \o w \o "\""
    THEN PyStr(CHOOSE w \in AgentNames \cup {"ghost"} : s = "\"" \o w \o "\"")
    ELSE IF s = "null" THEN PyNone
    ELSE IF s = "[]" THEN PyList
    ELSE JSONDecodeError

\* str(expire_at) on the way in (registry.py), and the number a timestamp string denotes.
str(n) == ToString(n)
int(s) == CHOOSE n \in 0..(MaxTime + 2) : ToString(n) = s

---------------------------------------------------------------------------
(* A Python dict, insertion-ordered: a sequence of <<key, value>> pairs.   *)

dict_keys(d) == {d[i][1] : i \in DOMAIN d}
dict_contains(d, k) == k \in dict_keys(d)
\* d.get(k): the value of the first pair with key k, or None.
dict_get(d, k) ==
    IF dict_contains(d, k)
    THEN Some(d[CHOOSE i \in DOMAIN d : d[i][1] = k /\ \A j \in 1..(i - 1) : d[j][1] # k][2])
    ELSE None
\* d[k] = v: replaces the value in place, or appends a new pair.
dict_setitem(d, k, v) ==
    IF dict_contains(d, k)
    THEN [i \in DOMAIN d |-> IF d[i][1] = k THEN <<k, v>> ELSE d[i]]
    ELSE Append(d, <<k, v>>)
dict_values(d) == [i \in DOMAIN d |-> d[i][2]]

---------------------------------------------------------------------------
(* A DynamoDB table with partition key "id": a set of items, an item a     *)
(* function from attribute names to values.                                *)

\* Table.get_item(Key={"id": key}).get("Item")
table_get_item(table, key) ==
    IF \E it \in table : it.id = key
    THEN Some(CHOOSE it \in table : it.id = key)
    ELSE None
\* Table.put_item(Item=item): replaces the whole item with that key.
table_put_item(table, item) ==
    {it \in table : it.id # item.id} \cup {item}
\* Table.update_item(Key={"id": key}, UpdateExpression="SET attr = :val"):
\* sets one attribute of the item, and creates the item when there is none.
table_update_item(table, key, attr, val) ==
    IF \E it \in table : it.id = key
    THEN {IF it.id = key THEN (attr :> val) @@ it ELSE it : it \in table}
    ELSE table \cup {("id" :> key) @@ (attr :> val)}
\* Table.scan().get("Items", []): every item; the order is the table's own
\* (here: by key).
ScanOrder == <<"alpha", "beta", "s1", "s2">>
table_scan(table) ==
    LET present == SelectSeq(ScanOrder, LAMBDA k : \E it \in table : it.id = k)
    IN  [i \in DOMAIN present |-> CHOOSE it \in table : it.id = present[i]]

---------------------------------------------------------------------------
(* in_memory_registry_storage.py: InMemoryAgentRegistry.  Each method      *)
(* takes self._agents; a reader returns its result, a writer the new dict. *)

InMemoryAgentRegistry_init == <<>>

InMemoryAgentRegistry_get_agent_cards(self_agents) ==
    LET values == dict_values(self_agents)
        cards == [i \in DOMAIN values |-> json_loads(values[i].card)]
    IN  IF \E i \in DOMAIN cards : cards[i] = JSONDecodeError
        THEN Raise("JSONDecodeError")
        ELSE Return(cards)

InMemoryAgentRegistry_get_agent_card(self_agents, name) ==
    LET agent_data == dict_get(self_agents, name)
    IN  IF agent_data # None THEN Some(agent_data[1].card) ELSE None

\* Mutant: a name that is registered keeps the record it has.
InMemoryAgentRegistry_put_agent_card_if_absent(self_agents, name, card, expire_at) ==
    IF dict_contains(self_agents, name)
    THEN self_agents
    ELSE dict_setitem(self_agents, name, [card |-> card, expire_at |-> expire_at])

InMemoryAgentRegistry_put_agent_card(self_agents, name, card, expire_at) ==
    dict_setitem(self_agents, name, [card |-> card, expire_at |-> expire_at])

InMemoryAgentRegistry_update_agent_expiry(self_agents, name, expire_at) ==
    IF dict_contains(self_agents, name)
    THEN dict_setitem(self_agents, name,
                      [dict_get(self_agents, name)[1] EXCEPT !.expire_at = expire_at])
    ELSE self_agents

---------------------------------------------------------------------------
(* dynamo_db.py: DynamoDbAgentRegistryLookup.  Each method takes           *)
(* self.table.                                                             *)

DynamoDbAgentRegistryLookup_init == {}

\* it["card"] of an item that has no "card" attribute is a KeyError.
DynamoDbAgentRegistryLookup_get_agent_cards(self_table) ==
    LET items == table_scan(self_table)
    IN  IF \E i \in DOMAIN items : "card" \notin DOMAIN items[i]
        THEN Raise("KeyError")
        ELSE IF \E i \in DOMAIN items : json_loads(items[i].card) = JSONDecodeError
        THEN Raise("JSONDecodeError")
        ELSE Return([i \in DOMAIN items |-> json_loads(items[i].card)])

\* item.get("card") of an item that has no "card" attribute is None.
DynamoDbAgentRegistryLookup_get_agent_card(self_table, name) ==
    LET item == table_get_item(self_table, name)
    IN  IF item # None
        THEN (IF "card" \in DOMAIN item[1] THEN Some(item[1].card) ELSE None)
        ELSE None

DynamoDbAgentRegistryLookup_put_agent_card(self_table, name, card, expire_at) ==
    table_put_item(self_table, [id |-> name, card |-> card, expireAt |-> expire_at])

\* Mutant: put_item for update_item, which replaces the whole item.
DynamoDbAgentRegistryLookup_update_agent_expiry_put(self_table, name, expire_at) ==
    table_put_item(self_table, [id |-> name, expireAt |-> expire_at])

DynamoDbAgentRegistryLookup_update_agent_expiry(self_table, name, expire_at) ==
    table_update_item(self_table, name, "expireAt", expire_at)

---------------------------------------------------------------------------
(* bootstrap.py: the registry server's agent endpoints.  A response is a   *)
(* status and a body; an exception no handler catches is a 500.            *)

Response(status, body) == [status |-> status, body |-> body]
\* A request, the time it was served at, and the response of each deployment.
Request(op, args, mem, ddb) ==
    [op |-> op, args |-> args, at |-> now, mem |-> mem, ddb |-> ddb]

---------------------------------------------------------------------------
(* bootstrap.py: the endpoints are plain functions, which the server runs  *)
(* in the threads of a pool, under no lock.  A handler whose storage call  *)
(* is one dict or table operation is one step.  A handler whose storage    *)
(* call is more than that is a thread that takes its steps one at a time,  *)
(* with the steps of other requests in between: the loops of               *)
(* InMemoryAgentRegistry.get_agent_cards and of                            *)
(* InMemoryMcpRegistry.get_mcp_server_for_agent, the test-then-store of    *)
(* InMemoryMcpRegistry.put_mcp_server and enable_mcp_server_for_agent, the *)
(* get_item-then-put_item of DynamoDbMcpRegistryLookup's                   *)
(* enable_mcp_server_for_agent and disable_mcp_server_for_agent.  `calls`  *)
(* holds these requests, each with its handler thread in the in-memory     *)
(* deployment (mem) and in the DynamoDB deployment (ddb).                  *)

Deployments == {"mem", "ddb"}
NoResponse == [status |-> 0, body |-> <<>>]
NoRequest ==
    [op |-> "none", args |-> <<>>, at |-> 0, mem |-> NoResponse, ddb |-> NoResponse]

\* A handler thread: the statement it is at, its local variables, and its
\* response once it has returned.
Thread(pc) ==
    [pc |-> pc,
     used |-> 0,              \* of a dict iterator: the size the dict had when it was made
     pos |-> 0,               \* of a dict iterator: the entries it has passed
     result |-> <<>>,         \* the list the loop has built
     item |-> None,           \* the item that get_item returned
     response |-> NoResponse]

\* The first statement of the handler of a request, per deployment.
FirstStep(deployment, op) ==
    IF deployment = "mem"
    THEN CASE op = "get_agent_cards" -> "iter"
           [] op = "put_mcp_server" -> "servers_setitem"
           [] op = "enable_mcp_server_for_agent" -> "contains"
           [] op = "disable_mcp_server_for_agent" -> "discard"
           [] op = "get_mcp_server_for_agent" -> "iter"
    ELSE CASE op = "get_agent_cards" -> "scan"
           [] op = "put_mcp_server" -> "put_item"
           [] op = "enable_mcp_server_for_agent" -> "get_item"
           [] op = "disable_mcp_server_for_agent" -> "get_item"
           [] op = "get_mcp_server_for_agent" -> "scan"

\* A request arrives at the deployments it was sent to.  History: the time,
\* and what the request's server name would have been answered then.
NewCall(op, args, sent_to, before) ==
    [op |-> op, args |-> args, at |-> now, before |-> before,
     mem |-> Thread(IF "mem" \in sent_to THEN FirstStep("mem", op) ELSE "done"),
     ddb |-> Thread(IF "ddb" \in sent_to THEN FirstStep("ddb", op) ELSE "done")]

\* The handler returns (or raises) and the endpoint answers.
Returned(thread, response) ==
    [thread EXCEPT !.pc = "done", !.used = 0, !.pos = 0, !.result = <<>>,
                   !.response = response]

\* Both deployments have answered the request: it becomes the last request
\* answered, and its threads are gone.
respond(c) ==
    LET call == calls[c]
    IN  /\ call.mem.pc = "done" /\ call.ddb.pc = "done"
        /\ last' = [op |-> call.op, args |-> call.args, at |-> call.at,
                    mem |-> call.mem.response, ddb |-> call.ddb.response,
                    before |-> call.before]
        /\ calls' = [i \in 1..(Len(calls) - 1) |-> IF i < c THEN calls[i] ELSE calls[i + 1]]
        /\ UNCHANGED <<agents, agent_card_table, registered, now, tasks, self_agent, last_cancel,
                       servers, allowed_agents, mcp_table, loops>>

\* PUT /agent-card/{name}
put_agent_card_response == Response(200, <<>>)
put_agent_card(name, agent_card, expire_at) ==
    /\ agents' = InMemoryAgentRegistry_put_agent_card(
                     agents, name, json_dumps(agent_card), expire_at)
    /\ agent_card_table' = DynamoDbAgentRegistryLookup_put_agent_card(
                     agent_card_table, name, json_dumps(agent_card), expire_at)
    /\ registered' = registered \cup {name}
    /\ last' = Request("put_agent_card", <<name, agent_card, expire_at>>,
                       put_agent_card_response, put_agent_card_response)
    /\ UNCHANGED <<now, tasks, self_agent, last_cancel, mcp_vars, loops>>

\* GET /agent-card/{name}: the card, or 404 when the storage returns None (or "").
get_agent_card_response(card_str) ==
    IF card_str # None /\ card_str # Some("")
    THEN (IF json_loads(card_str[1]) = JSONDecodeError
          THEN Response(500, <<>>)
          ELSE Response(200, <<json_loads(card_str[1])>>))
    ELSE Response(404, <<>>)
get_agent_card(name) ==
    /\ last' = Request("get_agent_card", <<name>>,
            get_agent_card_response(InMemoryAgentRegistry_get_agent_card(agents, name)),
            get_agent_card_response(
                DynamoDbAgentRegistryLookup_get_agent_card(agent_card_table, name)))
    /\ UNCHANGED <<agents, agent_card_table, registered, now, tasks, self_agent, last_cancel, mcp_vars, loops>>

\* GET /agent-cards
get_agent_cards_response(result) ==
    IF result.exc = "" THEN Response(200, result.val) ELSE Response(500, <<>>)
get_agent_cards ==
    /\ Len(calls) < MaxCalls
    /\ calls' = Append(calls, NewCall("get_agent_cards", <<>>, Deployments, <<>>))
    /\ last' = NoRequest
    /\ UNCHANGED <<agents, agent_card_table, registered, now, tasks, self_agent, last_cancel,
                   servers, allowed_agents, mcp_table, loops>>

\* InMemoryAgentRegistry.get_agent_cards, one step of the comprehension over
\* self._agents.values(): the iterator is made, and then each next() raises
\* RuntimeError ("dictionary changed size during iteration") when a name has
\* been added since, ends the loop after the last record, or yields the
\* record as it is now, whose card json.loads parses.
InMemoryAgentRegistry_get_agent_cards_step(c) ==
    LET call == calls[c]
        thread == call.mem
    IN  /\ call.op = "get_agent_cards"
        /\ thread.pc \in {"iter", "next"}
        /\ calls' = [calls EXCEPT ![c].mem =
              IF thread.pc = "iter"
              THEN [thread EXCEPT !.pc = "next", !.used = Len(agents)]
              ELSE IF Len(agents) # thread.used
              THEN Returned(thread, get_agent_cards_response(Raise("RuntimeError")))
              ELSE IF thread.pos = Len(agents)
              THEN Returned(thread, get_agent_cards_response(Return(thread.result)))
              ELSE LET card == json_loads(agents[thread.pos + 1][2].card)
                   IN  IF card = JSONDecodeError
                       THEN Returned(thread, get_agent_cards_response(Raise("JSONDecodeError")))
                       ELSE [thread EXCEPT !.pos = @ + 1, !.result = Append(@, card)]]
        /\ UNCHANGED <<agents, agent_card_table, registered, now, last, tasks, self_agent, last_cancel,
                       servers, allowed_agents, mcp_table, loops>>

\* DynamoDbAgentRegistryLookup.get_agent_cards: one scan.
DynamoDbAgentRegistryLookup_get_agent_cards_step(c) ==
    LET call == calls[c]
    IN  /\ call.op = "get_agent_cards"
        /\ call.ddb.pc = "scan"
        /\ calls' = [calls EXCEPT ![c].ddb = Returned(@,
              get_agent_cards_response(
                  DynamoDbAgentRegistryLookup_get_agent_cards(agent_card_table)))]
        /\ UNCHANGED <<agents, agent_card_table, registered, now, last, tasks, self_agent, last_cancel,
                       servers, allowed_agents, mcp_table, loops>>

\* PATCH /agent-card/{name}/heartbeat
patch_agent_heartbeat_response == Response(200, <<>>)
patch_agent_heartbeat(name, expire_at) ==
    /\ agents' = InMemoryAgentRegistry_update_agent_expiry(agents, name, expire_at)
    /\ agent_card_table' = DynamoDbAgentRegistryLookup_update_agent_expiry(
                               agent_card_table, name, expire_at)
    /\ last' = Request("patch_agent_heartbeat", <<name, expire_at>>,
                       patch_agent_heartbeat_response, patch_agent_heartbeat_response)
    /\ UNCHANGED <<registered, now, tasks, self_agent, last_cancel, mcp_vars, loops>>

\* Time passes.
Tick ==
    /\ now <= MaxTime
    /\ now' = now + 1
    /\ UNCHANGED <<agents, agent_card_table, registered, last, tasks, self_agent, last_cancel, mcp_vars, loops>>

---------------------------------------------------------------------------
(* The agent registry alone: requests in any order, each sent when the one *)
(* before it has been answered, and the clock.                             *)

Init ==
    /\ agents = InMemoryAgentRegistry_init
    /\ agent_card_table = DynamoDbAgentRegistryLookup_init
    /\ registered = {}
    /\ now = 0
    /\ last = NoRequest
    /\ tasks = <<>>
    /\ self_agent = StatusAgent(0, FALSE)
    /\ last_cancel = None
    /\ servers = <<>>
    /\ allowed_agents = <<>>
    /\ mcp_table = {}
    /\ calls = <<>>
    /\ loops = <<>>

RegistryNext ==
    \/ \E name \in AgentNames, d \in Descriptions, e \in ExpireAts :
           calls = <<>> /\ put_agent_card(name, Card(name, d), str(e))
    \/ \E name \in AgentNames : calls = <<>> /\ get_agent_card(name)
    \/ calls = <<>> /\ get_agent_cards
    \/ \E c \in DOMAIN calls : InMemoryAgentRegistry_get_agent_cards_step(c)
    \/ \E c \in DOMAIN calls : DynamoDbAgentRegistryLookup_get_agent_cards_step(c)
    \/ \E c \in DOMAIN calls : respond(c)
    \/ \E name \in AgentNames, e \in ExpireAts :
           calls = <<>> /\ patch_agent_heartbeat(name, str(e))
    \/ calls = <<>> /\ Tick

SpecRegistry == Init /\ [][RegistryNext]_vars

\* Agents register while lists are served: the handler threads of up to
\* MaxCalls GET /agent-cards at a time, over one card and one expiry per
\* agent name.
CardsRaceNext ==
    \/ \E name \in AgentNames : put_agent_card(name, Card(name, "d1"), str(1))
    \/ get_agent_cards
    \/ \E c \in DOMAIN calls : InMemoryAgentRegistry_get_agent_cards_step(c)
    \/ \E c \in DOMAIN calls : DynamoDbAgentRegistryLookup_get_agent_cards_step(c)
    \/ \E c \in DOMAIN calls : respond(c)

SpecCardsRace == Init /\ [][CardsRaceNext]_vars

---------------------------------------------------------------------------
(* executors.py: the events, and what the two black boxes may answer.      *)

\* TaskState values an agent may report.
TaskStates == {"completed", "failed", "rejected"}

TaskStatusUpdateEvent(state, final, context_id, task_id) ==
    [type |-> "TaskStatusUpdateEvent", state |-> state, final |-> final,
     context_id |-> context_id, task_id |-> task_id]

TaskArtifactUpdateEvent(artifact, context_id, task_id) ==
    [type |-> "TaskArtifactUpdateEvent", artifact |-> artifact, append |-> FALSE,
     last_chunk |-> TRUE, context_id |-> context_id, task_id |-> task_id]

new_text_artifact(name, description, text) ==
    [name |-> name, description |-> description, text |-> text]

\* What self.agent(...) may answer: a StringResponse, or an exception.
StringResponse(status, response) == [status |-> status, response |-> response]
AgentOutcomes ==
    {Raise("AgentError")}
        \cup {Return(StringResponse(st, "Hello!")) : st \in TaskStates}

\* What self.routing_agent(...) may answer: a RoutingResponse whose agent_card is
\* a dict or a str, or an exception.
RoutingResponse(status, agent_card) == [status |-> status, agent_card |-> agent_card]
AgentCardOutputs ==
    {PyDict(Card("beta", "d1")), PyDict(Card("ghost", "d1")), PyDict([description |-> "d1"]),
     PyStr(json_dumps(Card("beta", "d1"))), PyStr(model_dump_json(Card("beta", "d1"))),
     PyStr("beta"), PyStr("\"beta\""), PyStr("")}
RoutingOutcomes ==
    {Raise("AgentError")}
        \cup {Return(RoutingResponse(st, c)) : st \in {"completed", "failed"},
                                                c \in AgentCardOutputs}

\* What the tool-registry lookup of reinitialize_agent_with_tools may do: raise
\* (raise_for_status), find no tool server, or find some and rebuild self.agent.
ToolLookupOutcomes == {"raise", "no_tools", "tools"}

\* str(x) of a str.
py_str(v) == v.s

\* The ids a request may carry: None or a value.
ContextIds == {None, Some("ctx")}
TaskIds == {None, Some("task")}

\* Mutant: `and` for `or`.
PreconditionFails_and(context_id, task_id) == context_id = None /\ task_id = None

\* `if context.context_id is None or context.task_id is None: raise ValueError`
PreconditionFails(context_id, task_id) == context_id = None \/ task_id = None

\* A task: one call of execute, its position, its event queue and what it has seen.
NewTask(executor, context_id, task_id) ==
    [executor |-> executor, context_id |-> context_id, task_id |-> task_id,
     pc |-> "called", exc |-> "", event_queue |-> <<>>,
     agent_response |-> None, routing_agent_response |-> None, artifact |-> None,
     agent_calls |-> 0, routing_calls |-> 0,
     \* the instance self.agent named when execute was called, and the one the
     \* attempt was called on (None before the attempt)
     agent_at_call |-> self_agent, agent |-> None,
     \* history: the names live in the directory when the classifier answered
     live_at_routing |-> {}]

enqueue_event(task, event) == [task EXCEPT !.event_queue = Append(@, event)]
raise(task, exc) == [task EXCEPT !.pc = "raised", !.exc = exc]

\* The names the in-memory directory holds and the clock has not expired.
LiveAgents == {n \in dict_keys(agents) : int(dict_get(agents, n)[1].expire_at) >= now}

---------------------------------------------------------------------------
(* RoutingAgentExecutor.execute, one action per stretch between awaits.    *)

\* Mutant: a card that cannot be made into a hand-off is published as the
\* result artifact instead of raising.
RoutingAgentExecutor_handoff_lenient(agent_card) ==
    LET parsed == IF agent_card.t = "str" THEN json_loads(agent_card.s) ELSE agent_card
    IN  IF parsed = JSONDecodeError \/ parsed.t # "dict" \/ "name" \notin DOMAIN parsed.d
        THEN Return(new_text_artifact("current_result", "Error message from routing agent.",
                                      IF agent_card.t = "str" THEN agent_card.s ELSE ""))
        ELSE Return(new_text_artifact("target_agent", "New target agent for request.",
                                      json_dumps(parsed.d)))

\* Mutant: the hand-off published under the result artifact's name.
RoutingAgentExecutor_handoff_as_result(agent_card) ==
    LET parsed == IF agent_card.t = "str" THEN json_loads(agent_card.s) ELSE agent_card
    IN  IF parsed = JSONDecodeError THEN Raise("JSONDecodeError")
        ELSE IF parsed.t # "dict" THEN Raise("TypeError")
        ELSE IF "name" \notin DOMAIN parsed.d THEN Raise("KeyError")
        ELSE Return(new_text_artifact("current_result", "Result of request to agent.",
                                      json_dumps(parsed.d)))

\* The rejected branch (lines 94-111): the hand-off artifact, or the exception.
RoutingAgentExecutor_handoff(agent_card) ==
    LET parsed == IF agent_card.t = "str" THEN json_loads(agent_card.s) ELSE agent_card
    IN  IF parsed = JSONDecodeError THEN Raise("JSONDecodeError")
        ELSE IF parsed.t # "dict" THEN Raise("TypeError")
        ELSE IF "name" \notin DOMAIN parsed.d THEN Raise("KeyError")
        ELSE Return(new_text_artifact("target_agent", "New target agent for request.",
                                      json_dumps(parsed.d)))

\* The other branch (lines 113-115): the result artifact.
RoutingAgentExecutor_result(agent_response) ==
    new_text_artifact("current_result", "Result of request to agent.",
                      agent_response.response)

\* Lines 78-85: the precondition, then the 'working' status.
RoutingAgentExecutor_execute(context_id, task_id) ==
    /\ Len(tasks) < MaxTasks
    /\ LET task == NewTask("RoutingAgentExecutor", context_id, task_id)
       IN  tasks' = Append(tasks,
               IF PreconditionFails(context_id, task_id)
               THEN raise(task, "ValueError")
               ELSE [enqueue_event(task,
                        TaskStatusUpdateEvent("working", FALSE, context_id, task_id))
                     EXCEPT !.pc = "reinitialize"])
    /\ UNCHANGED <<agents, agent_card_table, registered, now, last, self_agent, last_cancel, mcp_vars, loops>>

\* Lines 86-87: reinitialize_agent_with_tools (130-149) looks the agent's tool
\* servers up and, when there are some, awaits their tools and assigns a new
\* StatusAgent to self.agent; the attempt is then called on what self.agent
\* names, with no await in between.
RoutingAgentExecutor_reinitialize_agent_with_tools(t, outcome) ==
    /\ tasks[t].executor = "RoutingAgentExecutor" /\ tasks[t].pc = "reinitialize"
    /\ self_agent' = IF outcome = "tools" THEN StatusAgent(t, TRUE) ELSE self_agent
    /\ tasks' = [tasks EXCEPT ![t] =
           IF outcome = "raise" THEN raise(@, "HTTPStatusError")
           ELSE [@ EXCEPT !.agent = Some(self_agent'), !.pc = "agent"]]
    /\ UNCHANGED <<agents, agent_card_table, registered, now, last, last_cancel, mcp_vars, loops>>

\* Lines 87-91 and 112-115: the attempt answers.
RoutingAgentExecutor_agent(t, outcome) ==
    /\ tasks[t].executor = "RoutingAgentExecutor" /\ tasks[t].pc = "agent"
    /\ tasks' = [tasks EXCEPT ![t] =
           LET called == [@ EXCEPT !.agent_calls = @ + 1]
           IN  IF outcome.exc # "" THEN raise(called, outcome.exc)
               ELSE IF outcome.val.status = "rejected"
               THEN [called EXCEPT !.agent_response = Some(outcome.val),
                                   !.pc = "routing_agent"]
               ELSE [called EXCEPT !.agent_response = Some(outcome.val),
                                   !.artifact = Some(RoutingAgentExecutor_result(outcome.val)),
                                   !.pc = "artifact"]]
    /\ UNCHANGED <<agents, agent_card_table, registered, now, last, self_agent, last_cancel, mcp_vars, loops>>

\* Mutant: the classifier's answer is kept, and a later task that is
\* rejected takes the answer of the first task instead of calling.
RoutingAgentExecutor_routing_agent_memo(t, outcome) ==
    /\ tasks[t].executor = "RoutingAgentExecutor" /\ tasks[t].pc = "routing_agent"
    /\ tasks' = [tasks EXCEPT ![t] =
           IF t > 1 /\ tasks[1].routing_agent_response # None
                   /\ RoutingAgentExecutor_handoff(
                          tasks[1].routing_agent_response[1].agent_card).exc = ""
           THEN [@ EXCEPT !.routing_agent_response = tasks[1].routing_agent_response,
                          !.artifact = Some(RoutingAgentExecutor_handoff(
                              tasks[1].routing_agent_response[1].agent_card).val),
                          !.pc = "artifact"]
           ELSE
           LET called == [@ EXCEPT !.routing_calls = @ + 1, !.live_at_routing = LiveAgents]
           IN  IF outcome.exc # "" THEN raise(called, outcome.exc)
               ELSE LET handoff == RoutingAgentExecutor_handoff(outcome.val.agent_card)
                        answered == [called EXCEPT !.routing_agent_response = Some(outcome.val)]
                    IN  IF handoff.exc # "" THEN raise(answered, handoff.exc)
                        ELSE [answered EXCEPT !.artifact = Some(handoff.val),
                                              !.pc = "artifact"]]
    /\ UNCHANGED <<agents, agent_card_table, registered, now, last, self_agent, last_cancel, mcp_vars, loops>>

\* Lines 92-111: the classifier answers.
RoutingAgentExecutor_routing_agent(t, outcome) ==
    /\ tasks[t].executor = "RoutingAgentExecutor" /\ tasks[t].pc = "routing_agent"
    /\ tasks' = [tasks EXCEPT ![t] =
           LET called == [@ EXCEPT !.routing_calls = @ + 1, !.live_at_routing = LiveAgents]
           IN  IF outcome.exc # "" THEN raise(called, outcome.exc)
               ELSE LET handoff == RoutingAgentExecutor_handoff(outcome.val.agent_card)
                        answered == [called EXCEPT !.routing_agent_response = Some(outcome.val)]
                    IN  IF handoff.exc # "" THEN raise(answered, handoff.exc)
                        ELSE [answered EXCEPT !.artifact = Some(handoff.val),
                                              !.pc = "artifact"]]
    /\ UNCHANGED <<agents, agent_card_table, registered, now, last, self_agent, last_cancel, mcp_vars, loops>>

\* Lines 118-122: publish the artifact.
RoutingAgentExecutor_publish_artifact(t) ==
    /\ tasks[t].executor = "RoutingAgentExecutor" /\ tasks[t].pc = "artifact"
    /\ tasks' = [tasks EXCEPT ![t] =
           [enqueue_event(@, TaskArtifactUpdateEvent(@.artifact[1], @.context_id, @.task_id))
            EXCEPT !.pc = "final"]]
    /\ UNCHANGED <<agents, agent_card_table, registered, now, last, self_agent, last_cancel, mcp_vars, loops>>

\* Mutant: the final status always 'completed'.
RoutingAgentExecutor_final_status_completed(task) ==
    TaskStatusUpdateEvent("completed", TRUE, task.context_id, task.task_id)

\* Lines 124-128: the final status carries the attempt's status; execute returns.
RoutingAgentExecutor_final_status(task) ==
    TaskStatusUpdateEvent(task.agent_response[1].status, TRUE, task.context_id, task.task_id)
RoutingAgentExecutor_publish_final(t) ==
    /\ tasks[t].executor = "RoutingAgentExecutor" /\ tasks[t].pc = "final"
    /\ tasks' = [tasks EXCEPT ![t] =
           [enqueue_event(@, RoutingAgentExecutor_final_status(@)) EXCEPT !.pc = "returned"]]
    /\ UNCHANGED <<agents, agent_card_table, registered, now, last, self_agent, last_cancel, mcp_vars, loops>>

---------------------------------------------------------------------------
(* RoutingExecutor.execute (the standalone router).                        *)

\* Mutant: the text that is not JSON is published as it is, empty or not.
RoutingExecutor_artifact_raw(agent_card) ==
    LET parsed == IF agent_card.t = "str" THEN json_loads(agent_card.s) ELSE agent_card
    IN  IF parsed = JSONDecodeError
        THEN new_text_artifact("current_result", "Error message from routing agent.",
                               agent_card.s)
        ELSE new_text_artifact("target_agent", "New target agent for request.",
                 IF parsed.t = "dict" THEN json_dumps(parsed.d) ELSE py_str(agent_card))

\* Mutant: every card is published under the result artifact's name.
RoutingExecutor_artifact_as_result(agent_card) ==
    LET parsed == IF agent_card.t = "str" THEN json_loads(agent_card.s) ELSE agent_card
    IN  new_text_artifact("current_result", "Error message from routing agent.",
            IF parsed = JSONDecodeError
            THEN (IF agent_card.s # "" THEN agent_card.s
                  ELSE "No agent found to handle the request.")
            ELSE IF parsed.t = "dict" THEN json_dumps(parsed.d) ELSE py_str(agent_card))

\* Lines 183-207: the artifact for the classifier's agent_card.  A str that is
\* not JSON gives a 'current_result' artifact with the raw text (or a fixed
\* message when the text is empty); anything else a 'target_agent' artifact.
RoutingExecutor_artifact(agent_card) ==
    LET parsed == IF agent_card.t = "str" THEN json_loads(agent_card.s) ELSE agent_card
    IN  IF parsed = JSONDecodeError
        THEN new_text_artifact("current_result", "Error message from routing agent.",
                 IF agent_card.s # "" THEN agent_card.s
                 ELSE "No agent found to handle the request.")
        ELSE new_text_artifact("target_agent", "New target agent for request.",
                 IF parsed.t = "dict" THEN json_dumps(parsed.d) ELSE py_str(agent_card))

\* Lines 172-178: the precondition, then the 'working' status.
RoutingExecutor_execute(context_id, task_id) ==
    /\ Len(tasks) < MaxTasks
    /\ LET task == NewTask("RoutingExecutor", context_id, task_id)
       IN  tasks' = Append(tasks,
               IF PreconditionFails(context_id, task_id)
               THEN raise(task, "ValueError")
               ELSE [enqueue_event(task,
                        TaskStatusUpdateEvent("working", FALSE, context_id, task_id))
                     EXCEPT !.pc = "routing_agent"])
    /\ UNCHANGED <<agents, agent_card_table, registered, now, last, self_agent, last_cancel, mcp_vars, loops>>

\* Lines 180-207: the classifier answers.
RoutingExecutor_routing_agent(t, outcome) ==
    /\ tasks[t].executor = "RoutingExecutor" /\ tasks[t].pc = "routing_agent"
    /\ tasks' = [tasks EXCEPT ![t] =
           LET called == [@ EXCEPT !.routing_calls = @ + 1, !.live_at_routing = LiveAgents]
           IN  IF outcome.exc # "" THEN raise(called, outcome.exc)
               ELSE [called EXCEPT !.routing_agent_response = Some(outcome.val),
                                   !.artifact = Some(RoutingExecutor_artifact(
                                                         outcome.val.agent_card)),
                                   !.pc = "artifact"]]
    /\ UNCHANGED <<agents, agent_card_table, registered, now, last, self_agent, last_cancel, mcp_vars, loops>>

\* Lines 210-214: publish the artifact.
RoutingExecutor_publish_artifact(t) ==
    /\ tasks[t].executor = "RoutingExecutor" /\ tasks[t].pc = "artifact"
    /\ tasks' = [tasks EXCEPT ![t] =
           [enqueue_event(@, TaskArtifactUpdateEvent(@.artifact[1], @.context_id, @.task_id))
            EXCEPT !.pc = "final"]]
    /\ UNCHANGED <<agents, agent_card_table, registered, now, last, self_agent, last_cancel, mcp_vars, loops>>

\* Mutant: the last status published with final=False, as the first one is.
RoutingExecutor_final_status_not_final(task) ==
    TaskStatusUpdateEvent(task.routing_agent_response[1].status, FALSE,
                          task.context_id, task.task_id)

\* Lines 216-220: the final status carries the classifier's status; execute returns.
RoutingExecutor_final_status(task) ==
    TaskStatusUpdateEvent(task.routing_agent_response[1].status, TRUE,
                          task.context_id, task.task_id)
RoutingExecutor_publish_final(t) ==
    /\ tasks[t].executor = "RoutingExecutor" /\ tasks[t].pc = "final"
    /\ tasks' = [tasks EXCEPT ![t] =
           [enqueue_event(@, RoutingExecutor_final_status(@)) EXCEPT !.pc = "returned"]]
    /\ UNCHANGED <<agents, agent_card_table, registered, now, last, self_agent, last_cancel, mcp_vars, loops>>

---------------------------------------------------------------------------
(* The executors beside a registry whose agents come and expire.           *)

\* An agent process registers its own card (one card and one expiry per name
\* keep this specification small; SpecRegistry has them all).
RegisterAgent == put_agent_card("beta", Card("beta", "d1"), str(1))

\* The agent has no tool server granted here, so self.agent stays the instance
\* of __init__ (SpecRouting, SpecConcurrent and SpecCancel have the rebuilds).
ExecNext ==
    \/ \E c \in ContextIds, k \in TaskIds : RoutingAgentExecutor_execute(c, k)
    \/ \E t \in DOMAIN tasks, o \in ToolLookupOutcomes \ {"tools"} :
           RoutingAgentExecutor_reinitialize_agent_with_tools(t, o)
    \/ \E t \in DOMAIN tasks, o \in AgentOutcomes : RoutingAgentExecutor_agent(t, o)
    \/ \E t \in DOMAIN tasks, o \in RoutingOutcomes : RoutingAgentExecutor_routing_agent(t, o)
    \/ \E t \in DOMAIN tasks : RoutingAgentExecutor_publish_artifact(t)
    \/ \E t \in DOMAIN tasks : RoutingAgentExecutor_publish_final(t)
    \/ \E c \in ContextIds, k \in TaskIds : RoutingExecutor_execute(c, k)
    \/ \E t \in DOMAIN tasks, o \in RoutingOutcomes : RoutingExecutor_routing_agent(t, o)
    \/ \E t \in DOMAIN tasks : RoutingExecutor_publish_artifact(t)
    \/ \E t \in DOMAIN tasks : RoutingExecutor_publish_final(t)
    \/ RegisterAgent
    \/ Tick

SpecExec == Init /\ [][ExecNext]_vars

---------------------------------------------------------------------------
(* One RoutingAgentExecutor serving its requests one after the other: the  *)
(* next execute is called when the tasks before it have ended.             *)

RoutingAgentExecutor_execute_next(context_id, task_id) ==
    /\ Len(tasks) < MaxTasks + 1
    /\ \A t \in DOMAIN tasks : tasks[t].pc \in {"returned", "raised"}
    /\ LET task == NewTask("RoutingAgentExecutor", context_id, task_id)
       IN  tasks' = Append(tasks,
               IF PreconditionFails(context_id, task_id)
               THEN raise(task, "ValueError")
               ELSE [enqueue_event(task,
                        TaskStatusUpdateEvent("working", FALSE, context_id, task_id))
                     EXCEPT !.pc = "reinitialize"])
    /\ UNCHANGED <<agents, agent_card_table, registered, now, last, self_agent, last_cancel, mcp_vars, loops>>

RoutingNext ==
    \/ \E c \in ContextIds, k \in TaskIds : RoutingAgentExecutor_execute_next(c, k)
    \/ \E t \in DOMAIN tasks, o \in ToolLookupOutcomes :
           RoutingAgentExecutor_reinitialize_agent_with_tools(t, o)
    \/ \E t \in DOMAIN tasks, o \in AgentOutcomes : RoutingAgentExecutor_agent(t, o)
    \/ \E t \in DOMAIN tasks, o \in RoutingOutcomes : RoutingAgentExecutor_routing_agent(t, o)
    \/ \E t \in DOMAIN tasks : RoutingAgentExecutor_publish_artifact(t)
    \/ \E t \in DOMAIN tasks : RoutingAgentExecutor_publish_final(t)

SpecRouting == Init /\ [][RoutingNext]_vars

---------------------------------------------------------------------------
(* One RoutingAgentExecutor serving concurrent requests: the server calls  *)
(* execute for a request while the runs of earlier requests are suspended  *)
(* at their awaits.                                                        *)

RoutingAgentExecutor_execute_concurrent(context_id, task_id) ==
    /\ Len(tasks) < MaxTasks + 1
    /\ LET task == NewTask("RoutingAgentExecutor", context_id, task_id)
       IN  tasks' = Append(tasks,
               IF PreconditionFails(context_id, task_id)
               THEN raise(task, "ValueError")
               ELSE [enqueue_event(task,
                        TaskStatusUpdateEvent("working", FALSE, context_id, task_id))
                     EXCEPT !.pc = "reinitialize"])
    /\ UNCHANGED <<agents, agent_card_table, registered, now, last, self_agent, last_cancel, mcp_vars, loops>>

\* The requests carry both ids and the classifier answers with one card or
\* raises (SpecExec has every id and every card).
ConcurrentNext ==
    \/ RoutingAgentExecutor_execute_concurrent(Some("ctx"), Some("task"))
    \/ \E t \in DOMAIN tasks, o \in ToolLookupOutcomes :
           RoutingAgentExecutor_reinitialize_agent_with_tools(t, o)
    \/ \E t \in DOMAIN tasks, o \in AgentOutcomes : RoutingAgentExecutor_agent(t, o)
    \/ \E t \in DOMAIN tasks,
          o \in {Raise("AgentError"),
                 Return(RoutingResponse("completed", PyDict(Card("beta", "d1"))))} :
           RoutingAgentExecutor_routing_agent(t, o)
    \/ \E t \in DOMAIN tasks : RoutingAgentExecutor_publish_artifact(t)
    \/ \E t \in DOMAIN tasks : RoutingAgentExecutor_publish_final(t)

SpecConcurrent == Init /\ [][ConcurrentNext]_vars

---------------------------------------------------------------------------
(* cancel of the two executors, callable in every state of a task.         *)

\* A cancel() call on the executor of task t, made when the task was at pc.
CancelCall(t, outcome) ==
    [executor |-> tasks[t].executor, task |-> t, pc |-> tasks[t].pc, exc |-> outcome.exc]

\* Mutant: cancel publishes a final 'canceled' status and returns.
RoutingAgentExecutor_cancel_publishes(t) ==
    /\ tasks[t].executor = "RoutingAgentExecutor"
    /\ last_cancel' = Some(CancelCall(t, Return(None)))
    /\ tasks' = [tasks EXCEPT ![t] =
           enqueue_event(@, TaskStatusUpdateEvent("canceled", TRUE, @.context_id, @.task_id))]
    /\ UNCHANGED <<agents, agent_card_table, registered, now, last, self_agent, mcp_vars, loops>>

\* RoutingAgentExecutor.cancel (lines 74-75): `raise NotImplementedError`.
RoutingAgentExecutor_cancel(t) ==
    /\ tasks[t].executor = "RoutingAgentExecutor"
    /\ last_cancel' = Some(CancelCall(t, Raise("NotImplementedError")))
    /\ UNCHANGED <<agents, agent_card_table, registered, now, last, tasks, self_agent, mcp_vars, loops>>

\* RoutingExecutor.cancel (lines 168-169): `raise NotImplementedError`.
RoutingExecutor_cancel(t) ==
    /\ tasks[t].executor = "RoutingExecutor"
    /\ last_cancel' = Some(CancelCall(t, Raise("NotImplementedError")))
    /\ UNCHANGED <<agents, agent_card_table, registered, now, last, tasks, self_agent, mcp_vars, loops>>

\* The executors with cancel; the classifier answers with one card or raises
\* (SpecExec has every card).
CancelNext ==
    \/ \E c \in ContextIds, k \in TaskIds : RoutingAgentExecutor_execute(c, k)
    \/ \E t \in DOMAIN tasks, o \in ToolLookupOutcomes :
           RoutingAgentExecutor_reinitialize_agent_with_tools(t, o)
    \/ \E t \in DOMAIN tasks, o \in AgentOutcomes : RoutingAgentExecutor_agent(t, o)
    \/ \E t \in DOMAIN tasks,
          o \in {Raise("AgentError"),
                 Return(RoutingResponse("completed", PyDict(Card("beta", "d1"))))} :
           RoutingAgentExecutor_routing_agent(t, o)
    \/ \E t \in DOMAIN tasks : RoutingAgentExecutor_publish_artifact(t)
    \/ \E t \in DOMAIN tasks : RoutingAgentExecutor_publish_final(t)
    \/ \E c \in ContextIds, k \in TaskIds : RoutingExecutor_execute(c, k)
    \/ \E t \in DOMAIN tasks,
          o \in {Raise("AgentError"),
                 Return(RoutingResponse("completed", PyDict(Card("beta", "d1"))))} :
           RoutingExecutor_routing_agent(t, o)
    \/ \E t \in DOMAIN tasks : RoutingExecutor_publish_artifact(t)
    \/ \E t \in DOMAIN tasks : RoutingExecutor_publish_final(t)
    \/ \E t \in DOMAIN tasks : RoutingAgentExecutor_cancel(t)
    \/ \E t \in DOMAIN tasks : RoutingExecutor_cancel(t)
    \/ RegisterAgent

SpecCancel == Init /\ [][CancelNext]_vars

---------------------------------------------------------------------------
(* model.py: McpServer, and its JSON form.                                 *)

ServerNames == {"s1", "s2"}
Urls == {"u1", "u2"}

McpServer(name, url) ==
    [name |-> name, url |-> url, protocol |-> "http", description |-> "tool"]
McpServers == {McpServer(n, u) : n \in ServerNames, u \in Urls}

\* McpServer.model_dump_json(): the compact form, fields in declaration order.
McpServer_model_dump_json(server) ==
    "{\"name\":\"" \o server.name \o "\",\"url\":\"" \o server.url
        \o "\",\"protocol\":\"" \o server.protocol
        \o "\",\"description\":\"" \o server.description \o "\"}"

\* McpServer.model_validate_json(text): the server the text denotes.
McpServer_model_validate_json(text) ==
    CHOOSE server \in McpServers : McpServer_model_dump_json(server) = text

---------------------------------------------------------------------------
(* in_memory_registry_storage.py: InMemoryMcpRegistry.  Each method takes  *)
(* self._servers and self._allowed_agents; a reader returns its result, a  *)
(* writer the two dicts after the call.                                    *)

InMemoryMcpRegistry_init == [servers |-> <<>>, allowed_agents |-> <<>>]

InMemoryMcpRegistry_get_mcp_servers(self_servers) == dict_values(self_servers)

InMemoryMcpRegistry_get_mcp_server(self_servers, name) == dict_get(self_servers, name)

InMemoryMcpRegistry_get_allowed_agents(self_allowed_agents, server_name) ==
    IF dict_contains(self_allowed_agents, server_name)
    THEN dict_get(self_allowed_agents, server_name)[1]
    ELSE {}

InMemoryMcpRegistry_disable_mcp_server_for_agent(self_servers, self_allowed_agents, server_name, agent_name) ==
    [servers |-> self_servers,
     allowed_agents |->
        IF dict_contains(self_allowed_agents, server_name)
        THEN dict_setitem(self_allowed_agents, server_name,
                          dict_get(self_allowed_agents, server_name)[1] \ {agent_name})
        ELSE self_allowed_agents]

\* The servers of the grant sets that hold the agent, in the order of
\* self._allowed_agents; a grant set whose server is not stored is skipped.
InMemoryMcpRegistry_get_mcp_server_for_agent(self_servers, self_allowed_agents, agent_name) ==
    LET granted == SelectSeq(self_allowed_agents,
                       LAMBDA p : agent_name \in p[2] /\ dict_contains(self_servers, p[1]))
    IN  [i \in DOMAIN granted |-> dict_get(self_servers, granted[i][1])[1]]

---------------------------------------------------------------------------
(* dynamo_db.py: DynamoDbMcpRegistryLookup.  Each method takes self.table; *)
(* an item is {"id", "server"} with an optional "allowed-agents" set.      *)

MCP_SERVER_COLUMN == "server"
ALLOWED_AGENTS_FIELD == "allowed-agents"

DynamoDbMcpRegistryLookup_init == {}

DynamoDbMcpRegistryLookup_get_mcp_servers(self_table) ==
    LET items == table_scan(self_table)
    IN  [i \in DOMAIN items |-> McpServer_model_validate_json(items[i][MCP_SERVER_COLUMN])]

DynamoDbMcpRegistryLookup_get_mcp_server(self_table, name) ==
    LET item == table_get_item(self_table, name)
    IN  IF item # None
        THEN Some(McpServer_model_validate_json(item[1][MCP_SERVER_COLUMN]))
        ELSE None

\* put_item replaces the whole item; "if allowed_agents:" leaves the field
\* out for None and for the empty set.
DynamoDbMcpRegistryLookup_put_mcp_server(self_table, server, allowed) ==
    LET item == ("id" :> server.name)
                    @@ (MCP_SERVER_COLUMN :> McpServer_model_dump_json(server))
    IN  table_put_item(self_table,
            IF allowed # None /\ allowed[1] # {}
            THEN item @@ (ALLOWED_AGENTS_FIELD :> allowed[1])
            ELSE item)

DynamoDbMcpRegistryLookup_get_allowed_agents(self_table, server_name) ==
    LET item == table_get_item(self_table, server_name)
    IN  IF item # None /\ ALLOWED_AGENTS_FIELD \in DOMAIN item[1]
        THEN item[1][ALLOWED_AGENTS_FIELD]
        ELSE {}

\* item.get(ALLOWED_AGENTS_FIELD): the set, or None.
item_get_allowed_agents(item) ==
    IF ALLOWED_AGENTS_FIELD \in DOMAIN item THEN Some(item[ALLOWED_AGENTS_FIELD]) ELSE None

\* Mutant: the server is written back on every grant, and written without
\* its grant set when the agent is already in it.
DynamoDbMcpRegistryLookup_enable_write_always(self_table, item, agent_name) ==
    LET server == McpServer_model_validate_json(item[MCP_SERVER_COLUMN])
        allowed_agents_raw == item_get_allowed_agents(item)
        allowed == IF allowed_agents_raw # None THEN allowed_agents_raw[1] ELSE {}
    IN  IF agent_name \notin allowed
        THEN DynamoDbMcpRegistryLookup_put_mcp_server(
                 self_table, server, Some(allowed \cup {agent_name}))
        ELSE DynamoDbMcpRegistryLookup_put_mcp_server(self_table, server, None)

\* The second half of enable_mcp_server_for_agent, from the item that
\* get_item returned: the table after the call.
DynamoDbMcpRegistryLookup_enable_write(self_table, item, agent_name) ==
    LET server == McpServer_model_validate_json(item[MCP_SERVER_COLUMN])
        allowed_agents_raw == item_get_allowed_agents(item)
        allowed == IF allowed_agents_raw # None THEN allowed_agents_raw[1] ELSE {}
    IN  IF agent_name \notin allowed
        THEN DynamoDbMcpRegistryLookup_put_mcp_server(
                 self_table, server, Some(allowed \cup {agent_name}))
        ELSE self_table

\* Mutant: revoking the last agent removes the server's item with its grants.
DynamoDbMcpRegistryLookup_disable_write_deletes(self_table, item, agent_name) ==
    LET server == McpServer_model_validate_json(item[MCP_SERVER_COLUMN])
        allowed_agents_raw == item_get_allowed_agents(item)
    IN  IF allowed_agents_raw # None /\ allowed_agents_raw[1] # {}
           /\ agent_name \in allowed_agents_raw[1]
        THEN (IF allowed_agents_raw[1] = {agent_name}
              THEN {it \in self_table : it.id # server.name}
              ELSE DynamoDbMcpRegistryLookup_put_mcp_server(
                       self_table, server, Some(allowed_agents_raw[1] \ {agent_name})))
        ELSE self_table

\* The second half of disable_mcp_server_for_agent.
DynamoDbMcpRegistryLookup_disable_write(self_table, item, agent_name) ==
    LET server == McpServer_model_validate_json(item[MCP_SERVER_COLUMN])
        allowed_agents_raw == item_get_allowed_agents(item)
    IN  IF allowed_agents_raw # None /\ allowed_agents_raw[1] # {}
           /\ agent_name \in allowed_agents_raw[1]
        THEN DynamoDbMcpRegistryLookup_put_mcp_server(
                 self_table, server, Some(allowed_agents_raw[1] \ {agent_name}))
        ELSE self_table

\* Mutant: revoking a grant that is not there is an error.
DynamoDbMcpRegistryLookup_item_found_strict(op, item, agent_name) ==
    /\ item # None
    /\ op = "disable_mcp_server_for_agent" =>
          /\ ALLOWED_AGENTS_FIELD \in DOMAIN item[1]
          /\ agent_name \in item[1][ALLOWED_AGENTS_FIELD]

\* item = response.get("Item"); if not item: raise Exception("MCP server not found")
DynamoDbMcpRegistryLookup_item_found(op, item, agent_name) == item # None

\* scan with FilterExpression Attr("allowed-agents").contains(agent_name)
DynamoDbMcpRegistryLookup_get_mcp_server_for_agent(self_table, agent_name) ==
    LET items == SelectSeq(table_scan(self_table),
                     LAMBDA it : ALLOWED_AGENTS_FIELD \in DOMAIN it
                                 /\ agent_name \in it[ALLOWED_AGENTS_FIELD])
    IN  [i \in DOMAIN items |-> McpServer_model_validate_json(items[i][MCP_SERVER_COLUMN])]

---------------------------------------------------------------------------
(* bootstrap.py: the registry server's /mcp endpoints, each served by both *)
(* deployments.                                                            *)

\* History: what GET /mcp/server/{name} and GET /mcp/{name}/agent would be
\* answered by each deployment now.
Before(name) ==
    [mem_server |-> InMemoryMcpRegistry_get_mcp_server(servers, name),
     mem_allowed |-> InMemoryMcpRegistry_get_allowed_agents(allowed_agents, name),
     ddb_server |-> DynamoDbMcpRegistryLookup_get_mcp_server(mcp_table, name),
     ddb_allowed |-> DynamoDbMcpRegistryLookup_get_allowed_agents(mcp_table, name)]

\* PUT /mcp/server
put_mcp_server(server) ==
    /\ Len(calls) < MaxCalls
    /\ calls' = Append(calls, NewCall("put_mcp_server", <<server>>, Deployments, Before(server.name)))
    /\ last' = NoRequest
    /\ UNCHANGED <<agents, agent_card_table, registered, now, tasks, self_agent, last_cancel,
                   servers, allowed_agents, mcp_table, loops>>

\* InMemoryMcpRegistry.put_mcp_server, one statement: the server is stored
\* (line 25); allowed_agents is None from the endpoint, so the name is looked
\* up in self._allowed_agents (line 28); an empty grant set is stored for a
\* name the test did not find (line 29).
InMemoryMcpRegistry_put_mcp_server_step(c) ==
    LET call == calls[c]
        thread == call.mem
        server == call.args[1]
    IN  /\ call.op = "put_mcp_server"
        /\ \/ /\ thread.pc = "servers_setitem"
              /\ servers' = dict_setitem(servers, server.name, server)
              /\ calls' = [calls EXCEPT ![c].mem.pc = "contains"]
              /\ UNCHANGED allowed_agents
           \/ /\ thread.pc = "contains"
              /\ calls' = [calls EXCEPT ![c].mem =
                    IF dict_contains(allowed_agents, server.name)
                    THEN Returned(thread, Response(200, <<>>))
                    ELSE [thread EXCEPT !.pc = "allowed_setitem"]]
              /\ UNCHANGED <<servers, allowed_agents>>
           \/ /\ thread.pc = "allowed_setitem"
              /\ allowed_agents' = dict_setitem(allowed_agents, server.name, {})
              /\ calls' = [calls EXCEPT ![c].mem = Returned(thread, Response(200, <<>>))]
              /\ UNCHANGED servers
        /\ UNCHANGED <<agents, agent_card_table, registered, now, last, tasks, self_agent, last_cancel,
                       mcp_table, loops>>

\* DynamoDbMcpRegistryLookup.put_mcp_server: one put_item.
DynamoDbMcpRegistryLookup_put_mcp_server_step(c) ==
    LET call == calls[c]
    IN  /\ call.op = "put_mcp_server"
        /\ call.ddb.pc = "put_item"
        /\ mcp_table' = DynamoDbMcpRegistryLookup_put_mcp_server(mcp_table, call.args[1], None)
        /\ calls' = [calls EXCEPT ![c].ddb = Returned(@, Response(200, <<>>))]
        /\ UNCHANGED <<agents, agent_card_table, registered, now, last, tasks, self_agent, last_cancel,
                       servers, allowed_agents, loops>>

\* GET /mcp/server/{name}: the server, or 404.
get_mcp_server_response(server) ==
    IF server # None THEN Response(200, server) ELSE Response(404, <<>>)
get_mcp_server(name) ==
    /\ last' = Request("get_mcp_server", <<name>>,
            get_mcp_server_response(InMemoryMcpRegistry_get_mcp_server(servers, name)),
            get_mcp_server_response(DynamoDbMcpRegistryLookup_get_mcp_server(mcp_table, name)))
    /\ UNCHANGED <<agents, agent_card_table, registered, now, tasks, self_agent, last_cancel, mcp_vars, loops>>

\* GET /mcp/servers
get_mcp_servers ==
    /\ last' = Request("get_mcp_servers", <<>>,
            Response(200, InMemoryMcpRegistry_get_mcp_servers(servers)),
            Response(200, DynamoDbMcpRegistryLookup_get_mcp_servers(mcp_table)))
    /\ UNCHANGED <<agents, agent_card_table, registered, now, tasks, self_agent, last_cancel, mcp_vars, loops>>

\* try: ... except Exception as e: raise HTTPException(status_code=404, ...)
grant_response(result) ==
    IF result.exc = "" THEN Response(200, <<>>) ELSE Response(404, <<>>)

\* PUT /mcp/{name}/agent/{agent_name}
enable_mcp_server_for_agent(name, agent_name) ==
    /\ Len(calls) < MaxCalls
    /\ calls' = Append(calls, NewCall("enable_mcp_server_for_agent",
                                      <<name, agent_name>>, Deployments, Before(name)))
    /\ last' = NoRequest
    /\ UNCHANGED <<agents, agent_card_table, registered, now, tasks, self_agent, last_cancel,
                   servers, allowed_agents, mcp_table, loops>>

\* DELETE /mcp/{name}/agent/{agent_name}
disable_mcp_server_for_agent(name, agent_name) ==
    /\ Len(calls) < MaxCalls
    /\ calls' = Append(calls, NewCall("disable_mcp_server_for_agent",
                                      <<name, agent_name>>, Deployments, Before(name)))
    /\ last' = NoRequest
    /\ UNCHANGED <<agents, agent_card_table, registered, now, tasks, self_agent, last_cancel,
                   servers, allowed_agents, mcp_table, loops>>

\* InMemoryMcpRegistry.enable_mcp_server_for_agent, one statement: the name is
\* looked up in self._allowed_agents (line 37); an empty grant set is stored
\* for a name the test did not find (line 38); the agent is added to the set
\* the dict holds for the name now (line 39).  No look at self._servers: a
\* grant set is created for any server name.
InMemoryMcpRegistry_enable_mcp_server_for_agent_step(c) ==
    LET call == calls[c]
        thread == call.mem
        server_name == call.args[1]
        agent_name == call.args[2]
    IN  /\ call.op = "enable_mcp_server_for_agent"
        /\ \/ /\ thread.pc = "contains"
              /\ calls' = [calls EXCEPT ![c].mem.pc =
                    IF dict_contains(allowed_agents, server_name)
                    THEN "add" ELSE "allowed_setitem"]
              /\ UNCHANGED allowed_agents
           \/ /\ thread.pc = "allowed_setitem"
              /\ allowed_agents' = dict_setitem(allowed_agents, server_name, {})
              /\ calls' = [calls EXCEPT ![c].mem.pc = "add"]
           \/ /\ thread.pc = "add"
              /\ allowed_agents' = dict_setitem(allowed_agents, server_name,
                    dict_get(allowed_agents, server_name)[1] \cup {agent_name})
              /\ calls' = [calls EXCEPT ![c].mem =
                    Returned(thread, grant_response(Return(<<>>)))]
        /\ UNCHANGED <<agents, agent_card_table, registered, now, last, tasks, self_agent, last_cancel,
                       servers, mcp_table, loops>>

\* InMemoryMcpRegistry.disable_mcp_server_for_agent: the test and the discard
\* are one step, since no handler removes a key of self._allowed_agents and
\* the test's answer cannot change before the discard.
InMemoryMcpRegistry_disable_mcp_server_for_agent_step(c) ==
    LET call == calls[c]
        mem == InMemoryMcpRegistry_disable_mcp_server_for_agent(
                   servers, allowed_agents, call.args[1], call.args[2])
    IN  /\ call.op = "disable_mcp_server_for_agent"
        /\ call.mem.pc = "discard"
        /\ allowed_agents' = mem.allowed_agents
        /\ calls' = [calls EXCEPT ![c].mem = Returned(@, grant_response(Return(<<>>)))]
        /\ UNCHANGED <<agents, agent_card_table, registered, now, last, tasks, self_agent, last_cancel,
                       servers, mcp_table, loops>>

\* DynamoDbMcpRegistryLookup.enable_mcp_server_for_agent and
\* disable_mcp_server_for_agent, the first half:
\* response = self.table.get_item(...); "MCP server not found" is raised
\* without an item.
DynamoDbMcpRegistryLookup_get_item(c) ==
    LET call == calls[c]
        item == table_get_item(mcp_table, call.args[1])
    IN  /\ call.op \in {"enable_mcp_server_for_agent", "disable_mcp_server_for_agent"}
        /\ call.ddb.pc = "get_item"
        /\ calls' = [calls EXCEPT ![c].ddb =
              IF DynamoDbMcpRegistryLookup_item_found(call.op, item, call.args[2])
              THEN [@ EXCEPT !.pc = "put_item", !.item = item]
              ELSE Returned([@ EXCEPT !.item = item], grant_response(Raise("Exception")))]
        /\ UNCHANGED <<agents, agent_card_table, registered, now, last, tasks, self_agent, last_cancel,
                       servers, allowed_agents, mcp_table, loops>>

\* Mutant: the write adds to (removes from) the set the table holds now, as
\* an atomic ADD (DELETE) update would.
DynamoDbMcpRegistryLookup_put_item_atomic(c) ==
    LET call == calls[c]
        item == table_get_item(mcp_table, call.args[1])
    IN  /\ call.op \in {"enable_mcp_server_for_agent", "disable_mcp_server_for_agent"}
        /\ call.ddb.pc = "put_item"
        /\ mcp_table' =
              IF item = None THEN mcp_table
              ELSE IF call.op = "enable_mcp_server_for_agent"
              THEN DynamoDbMcpRegistryLookup_enable_write(mcp_table, item[1], call.args[2])
              ELSE DynamoDbMcpRegistryLookup_disable_write(mcp_table, item[1], call.args[2])
        /\ calls' = [calls EXCEPT ![c].ddb = Returned(@, grant_response(Return(<<>>)))]
        /\ UNCHANGED <<agents, agent_card_table, registered, now, last, tasks, self_agent, last_cancel,
                       servers, allowed_agents, loops>>

\* The second half: the set of the item that was read, changed, is put back
\* with put_mcp_server (or nothing is written when there is no change).
DynamoDbMcpRegistryLookup_put_item(c) ==
    LET call == calls[c]
    IN  /\ call.op \in {"enable_mcp_server_for_agent", "disable_mcp_server_for_agent"}
        /\ call.ddb.pc = "put_item"
        /\ mcp_table' =
              IF call.op = "enable_mcp_server_for_agent"
              THEN DynamoDbMcpRegistryLookup_enable_write(
                       mcp_table, call.ddb.item[1], call.args[2])
              ELSE DynamoDbMcpRegistryLookup_disable_write(
                       mcp_table, call.ddb.item[1], call.args[2])
        /\ calls' = [calls EXCEPT ![c].ddb = Returned(@, grant_response(Return(<<>>)))]
        /\ UNCHANGED <<agents, agent_card_table, registered, now, last, tasks, self_agent, last_cancel,
                       servers, allowed_agents, loops>>

\* GET /mcp/{name}/agent
get_allowed_agents(name) ==
    /\ last' = Request("get_allowed_agents", <<name>>,
            Response(200, InMemoryMcpRegistry_get_allowed_agents(allowed_agents, name)),
            Response(200, DynamoDbMcpRegistryLookup_get_allowed_agents(mcp_table, name)))
    /\ UNCHANGED <<agents, agent_card_table, registered, now, tasks, self_agent, last_cancel, mcp_vars, loops>>

\* GET /mcp/agent/{agent_name}/servers
get_mcp_server_for_agent(agent_name) ==
    /\ Len(calls) < MaxCalls
    /\ calls' = Append(calls, NewCall("get_mcp_server_for_agent", <<agent_name>>, Deployments, <<>>))
    /\ last' = NoRequest
    /\ UNCHANGED <<agents, agent_card_table, registered, now, tasks, self_agent, last_cancel,
                   servers, allowed_agents, mcp_table, loops>>

\* InMemoryMcpRegistry.get_mcp_server_for_agent, one step of the loop over
\* self._allowed_agents.items(): the iterator is made, and then each next()
\* raises RuntimeError ("dictionary changed size during iteration") when a
\* server name has been added since, ends the loop after the last entry, or
\* yields the entry as it is now, whose server is appended when the agent is
\* in the grant set and the server is stored.
InMemoryMcpRegistry_get_mcp_server_for_agent_step(c) ==
    LET call == calls[c]
        thread == call.mem
        agent_name == call.args[1]
    IN  /\ call.op = "get_mcp_server_for_agent"
        /\ thread.pc \in {"iter", "next"}
        /\ calls' = [calls EXCEPT ![c].mem =
              IF thread.pc = "iter"
              THEN [thread EXCEPT !.pc = "next", !.used = Len(allowed_agents)]
              ELSE IF Len(allowed_agents) # thread.used
              THEN Returned(thread, Response(500, <<>>))
              ELSE IF thread.pos = Len(allowed_agents)
              THEN Returned(thread, Response(200, thread.result))
              ELSE LET entry == allowed_agents[thread.pos + 1]
                       server == dict_get(servers, entry[1])
                   IN  [thread EXCEPT
                           !.pos = @ + 1,
                           !.result = IF agent_name \in entry[2] /\ server # None
                                      THEN Append(@, server[1]) ELSE @]]
        /\ UNCHANGED <<agents, agent_card_table, registered, now, last, tasks, self_agent, last_cancel,
                       servers, allowed_agents, mcp_table, loops>>

\* DynamoDbMcpRegistryLookup.get_mcp_server_for_agent: one scan.
DynamoDbMcpRegistryLookup_get_mcp_server_for_agent_step(c) ==
    LET call == calls[c]
    IN  /\ call.op = "get_mcp_server_for_agent"
        /\ call.ddb.pc = "scan"
        /\ calls' = [calls EXCEPT ![c].ddb = Returned(@, Response(200,
              DynamoDbMcpRegistryLookup_get_mcp_server_for_agent(mcp_table, call.args[1])))]
        /\ UNCHANGED <<agents, agent_card_table, registered, now, last, tasks, self_agent, last_cancel,
                       servers, allowed_agents, mcp_table, loops>>

\* A step of the handler thread of some request of the tool-server registry,
\* or its answer.
McpHandlers ==
    \/ \E c \in DOMAIN calls : InMemoryMcpRegistry_put_mcp_server_step(c)
    \/ \E c \in DOMAIN calls : DynamoDbMcpRegistryLookup_put_mcp_server_step(c)
    \/ \E c \in DOMAIN calls : InMemoryMcpRegistry_enable_mcp_server_for_agent_step(c)
    \/ \E c \in DOMAIN calls : InMemoryMcpRegistry_disable_mcp_server_for_agent_step(c)
    \/ \E c \in DOMAIN calls : DynamoDbMcpRegistryLookup_get_item(c)
    \/ \E c \in DOMAIN calls : DynamoDbMcpRegistryLookup_put_item(c)
    \/ \E c \in DOMAIN calls : InMemoryMcpRegistry_get_mcp_server_for_agent_step(c)
    \/ \E c \in DOMAIN calls : DynamoDbMcpRegistryLookup_get_mcp_server_for_agent_step(c)
    \/ \E c \in DOMAIN calls : respond(c)

\* The tool-server registry alone, with one administrator: requests in any
\* order, each sent when the one before it has been answered.
McpNext ==
    \/ \E server \in McpServers : calls = <<>> /\ put_mcp_server(server)
    \/ \E name \in ServerNames : calls = <<>> /\ get_mcp_server(name)
    \/ calls = <<>> /\ get_mcp_servers
    \/ \E name \in ServerNames, agent_name \in AgentNames :
           calls = <<>> /\ enable_mcp_server_for_agent(name, agent_name)
    \/ \E name \in ServerNames, agent_name \in AgentNames :
           calls = <<>> /\ disable_mcp_server_for_agent(name, agent_name)
    \/ \E name \in ServerNames : calls = <<>> /\ get_allowed_agents(name)
    \/ \E agent_name \in AgentNames : calls = <<>> /\ get_mcp_server_for_agent(agent_name)
    \/ McpHandlers

SpecMcp == Init /\ [][McpNext]_vars

---------------------------------------------------------------------------
(* registry.py: the client's get_agent_card, and the registry server with  *)
(* its agent and tool-server endpoints side by side.                       *)

\* Mutant: raise_for_status before the 404 test.
AgentRegistryLookup_get_agent_card_raises(response) ==
    IF response.status >= 400 THEN Raise("HTTPStatusError")
    ELSE Return(response.body)

\* AgentRegistryLookup.get_agent_card (registry.py 63-76) for the response of
\* GET /agent-card/{name}: None on 404, HTTPStatusError on another error
\* status, response.json() otherwise (the body holds it as Some(value)).
AgentRegistryLookup_get_agent_card(response) ==
    IF response.status = 404 THEN Return(None)
    ELSE IF response.status >= 400 THEN Raise("HTTPStatusError")
    ELSE Return(response.body)

\* One card and one expiry per agent name, one url per server name
\* (SpecRegistry and SpecMcp have them all); each request is sent when the
\* one before it has been answered.
LookupNext ==
    \/ \E name \in AgentNames : calls = <<>> /\ put_agent_card(name, Card(name, "d1"), str(1))
    \/ \E name \in AgentNames : calls = <<>> /\ get_agent_card(name)
    \/ \E name \in AgentNames : calls = <<>> /\ patch_agent_heartbeat(name, str(1))
    \/ \E name \in ServerNames : calls = <<>> /\ put_mcp_server(McpServer(name, "u1"))
    \/ \E name \in ServerNames : calls = <<>> /\ get_mcp_server(name)
    \/ \E name \in ServerNames : calls = <<>> /\ enable_mcp_server_for_agent(name, "alpha")
    \/ \E name \in ServerNames : calls = <<>> /\ disable_mcp_server_for_agent(name, "alpha")
    \/ \E c \in DOMAIN calls : InMemoryMcpRegistry_put_mcp_server_step(c)
    \/ \E c \in DOMAIN calls : DynamoDbMcpRegistryLookup_put_mcp_server_step(c)
    \/ \E c \in DOMAIN calls : InMemoryMcpRegistry_enable_mcp_server_for_agent_step(c)
    \/ \E c \in DOMAIN calls : InMemoryMcpRegistry_disable_mcp_server_for_agent_step(c)
    \/ \E c \in DOMAIN calls : DynamoDbMcpRegistryLookup_get_item(c)
    \/ \E c \in DOMAIN calls : DynamoDbMcpRegistryLookup_put_item(c)
    \/ \E c \in DOMAIN calls : respond(c)

SpecLookup == Init /\ [][LookupNext]_vars

---------------------------------------------------------------------------
(* registry.py: registry_heart_beat, one coroutine per loop, against the   *)
(* registry server through the HTTP client (AgentRegistryLookup).  A call  *)
(* of the client is synchronous: between its start and its return the      *)
(* coroutine cannot be suspended, but time passes, the registry serves the *)
(* request, and other loops' calls are served.  The coroutine is suspended *)
(* in asyncio.sleep only.                                                  *)

\* The number of heartbeat loops, and the agents that run one.
MaxLoops == 1
LoopAgents == {"beta"}
\* interval_sec, and what get_expire_at adds to the time of its call.
interval_sec == 1
expire_after == 1

\* A call of the client returns (the server answered 200), or raises: the
\* network failed or the answer was an error status.  The registry serves the
\* request, when it does, at some moment between the start of the call and
\* its end: a call that raises may have been served (the answer was lost).
CallOutcomes == {"ok", "error"}

\* asyncio.create_task(registry_heart_beat(name, registry, agent_card, ...))
NewLoop(name, agent_card) ==
    [name |-> name, agent_card |-> agent_card,
     pc |-> "created",        \* created, put, patch, sleep, raised, cancelled
     expire_at |-> 0,         \* the argument of the call in progress
     served |-> FALSE,        \* the registry has served the call in progress
     get_expire_at_calls |-> 0,
     put_calls |-> 0, patch_calls |-> 0,
     register_failed |-> FALSE,  \* the register call (put_agent_card) raised
     failed |-> 0,            \* heartbeat calls that raised (and were logged)
     slept |-> 0,             \* the sleep that came before the call in progress (0: none)
     wake_at |-> 0,
     cancel |-> FALSE,        \* a cancellation of the task has been requested
     cancel_pc |-> ""]        \* history: where the loop was when it was requested

\* get_expire_at(): the injected time source.
get_expire_at == now + expire_after

create_task(name, agent_card) ==
    /\ Len(loops) < MaxLoops
    /\ loops' = Append(loops, NewLoop(name, agent_card))
    /\ UNCHANGED <<agents, agent_card_table, registered, now, last, tasks, self_agent, last_cancel, mcp_vars>>

\* The coroutine starts: registry.put_agent_card(..., expire_at=get_expire_at()) is called.
registry_heart_beat_start(l) ==
    /\ loops[l].pc = "created" /\ ~loops[l].cancel
    /\ loops' = [loops EXCEPT ![l].pc = "put",
                              ![l].expire_at = get_expire_at,
                              ![l].get_expire_at_calls = @ + 1,
                              ![l].put_calls = @ + 1]
    /\ UNCHANGED <<agents, agent_card_table, registered, now, last, tasks, self_agent, last_cancel, mcp_vars>>

\* The registry serves the PUT /agent-card/{name} of the register call in
\* progress (AgentRegistryLookup.put_agent_card, then the endpoint).
registry_heart_beat_put_served(l) ==
    LET loop == loops[l] IN
    /\ loop.pc = "put" /\ ~loop.served
    /\ agents' = InMemoryAgentRegistry_put_agent_card(
            agents, loop.name, json_dumps(loop.agent_card), str(loop.expire_at))
    /\ agent_card_table' = DynamoDbAgentRegistryLookup_put_agent_card(
            agent_card_table, loop.name, json_dumps(loop.agent_card),
            str(loop.expire_at))
    /\ registered' = registered \cup {loop.name}
    /\ last' = Request("put_agent_card",
                       <<loop.name, loop.agent_card, str(loop.expire_at)>>,
                       put_agent_card_response, put_agent_card_response)
    /\ loops' = [loops EXCEPT ![l].served = TRUE]
    /\ UNCHANGED <<now, tasks, self_agent, last_cancel, mcp_vars>>

\* Mutant: the loop sleeps before its first heartbeat call.
registry_heart_beat_put_returns_sleep_first(l, outcome) ==
    LET loop == loops[l] IN
    /\ loop.pc = "put"
    /\ outcome = "ok" => loop.served
    /\ loops' = IF outcome = "ok"
                THEN [loops EXCEPT ![l].pc = "sleep",
                                   ![l].served = FALSE,
                                   ![l].wake_at = now + interval_sec]
                ELSE [loops EXCEPT ![l].pc = "raised", ![l].register_failed = TRUE]
    /\ UNCHANGED <<agents, agent_card_table, registered, now, last, tasks, self_agent, last_cancel, mcp_vars>>

\* Mutant: a failing register is caught as a failing heartbeat is, and the
\* loop is entered.
registry_heart_beat_put_returns_caught(l, outcome) ==
    LET loop == loops[l] IN
    /\ loop.pc = "put"
    /\ outcome = "ok" => loop.served
    /\ loops' = [loops EXCEPT ![l].pc = "patch",
                              ![l].served = FALSE,
                              ![l].register_failed = (outcome # "ok"),
                              ![l].expire_at = get_expire_at,
                              ![l].get_expire_at_calls = @ + 1,
                              ![l].patch_calls = @ + 1,
                              ![l].slept = 0]
    /\ UNCHANGED <<agents, agent_card_table, registered, now, last, tasks, self_agent, last_cancel, mcp_vars>>

\* put_agent_card returns (the registry has served it and answered 200) and
\* the loop calls patch_agent_expiry at once, or put_agent_card raises and so
\* does the coroutine.
registry_heart_beat_put_returns(l, outcome) ==
    LET loop == loops[l] IN
    /\ loop.pc = "put"
    /\ outcome = "ok" => loop.served
    /\ loops' = IF outcome = "ok"
                THEN [loops EXCEPT ![l].pc = "patch",
                                   ![l].served = FALSE,
                                   ![l].expire_at = get_expire_at,
                                   ![l].get_expire_at_calls = @ + 1,
                                   ![l].patch_calls = @ + 1,
                                   ![l].slept = 0]
                ELSE [loops EXCEPT ![l].pc = "raised", ![l].register_failed = TRUE]
    /\ UNCHANGED <<agents, agent_card_table, registered, now, last, tasks, self_agent, last_cancel, mcp_vars>>

\* The registry serves the PATCH /agent-card/{name}/heartbeat of the heartbeat
\* call in progress (AgentRegistryLookup.patch_agent_expiry, then the endpoint).
registry_heart_beat_patch_served(l) ==
    LET loop == loops[l] IN
    /\ loop.pc = "patch" /\ ~loop.served
    /\ agents' = InMemoryAgentRegistry_update_agent_expiry(
            agents, loop.name, str(loop.expire_at))
    /\ agent_card_table' = DynamoDbAgentRegistryLookup_update_agent_expiry(
            agent_card_table, loop.name, str(loop.expire_at))
    /\ last' = Request("patch_agent_heartbeat", <<loop.name, str(loop.expire_at)>>,
                       patch_agent_heartbeat_response, patch_agent_heartbeat_response)
    /\ loops' = [loops EXCEPT ![l].served = TRUE]
    /\ UNCHANGED <<registered, now, tasks, self_agent, last_cancel, mcp_vars>>

\* Mutant: no try/except around patch_agent_expiry.
registry_heart_beat_patch_returns_uncaught(l, outcome) ==
    LET loop == loops[l] IN
    /\ loop.pc = "patch"
    /\ outcome = "ok" => loop.served
    /\ loops' = IF outcome = "ok"
                THEN [loops EXCEPT ![l].pc = "sleep",
                                   ![l].served = FALSE,
                                   ![l].wake_at = now + interval_sec]
                ELSE [loops EXCEPT ![l].pc = "raised", ![l].failed = @ + 1]
    /\ UNCHANGED <<agents, agent_card_table, registered, now, last, tasks, self_agent, last_cancel, mcp_vars>>

\* patch_agent_expiry returns, or raises and the exception is logged; either
\* way the loop goes on to await asyncio.sleep(interval_sec).
registry_heart_beat_patch_returns(l, outcome) ==
    LET loop == loops[l] IN
    /\ loop.pc = "patch"
    /\ outcome = "ok" => loop.served
    /\ loops' = [loops EXCEPT ![l].pc = "sleep",
                              ![l].served = FALSE,
                              ![l].wake_at = now + interval_sec,
                              ![l].failed = IF outcome = "ok" THEN @ ELSE @ + 1]
    /\ UNCHANGED <<agents, agent_card_table, registered, now, last, tasks, self_agent, last_cancel, mcp_vars>>

\* asyncio.sleep(interval_sec) is over: the next turn of "while True" calls
\* patch_agent_expiry(..., expire_at=get_expire_at()).
registry_heart_beat_wake(l) ==
    /\ loops[l].pc = "sleep" /\ ~loops[l].cancel
    /\ now >= loops[l].wake_at
    /\ loops' = [loops EXCEPT ![l].pc = "patch",
                              ![l].expire_at = get_expire_at,
                              ![l].get_expire_at_calls = @ + 1,
                              ![l].patch_calls = @ + 1,
                              ![l].slept = interval_sec]
    /\ UNCHANGED <<agents, agent_card_table, registered, now, last, tasks, self_agent, last_cancel, mcp_vars>>

\* Task.cancel(): the request, made at any moment of the task's life (from
\* another thread it waits for the event loop while a client call runs).
Task_cancel(l) ==
    /\ loops[l].pc \notin {"raised", "cancelled"} /\ ~loops[l].cancel
    /\ loops' = [loops EXCEPT ![l].cancel = TRUE, ![l].cancel_pc = loops[l].pc]
    /\ UNCHANGED <<agents, agent_card_table, registered, now, last, tasks, self_agent, last_cancel, mcp_vars>>

\* Mutant: the client calls are awaited, so that CancelledError reaches the
\* coroutine in the middle of a call too.
registry_heart_beat_cancelled_in_call(l) ==
    /\ loops[l].cancel /\ loops[l].pc \in {"created", "sleep", "put", "patch"}
    /\ loops' = [loops EXCEPT ![l].pc = "cancelled"]
    /\ UNCHANGED <<agents, agent_card_table, registered, now, last, tasks, self_agent, last_cancel, mcp_vars>>

\* CancelledError is thrown into the coroutine where it is suspended: before
\* its first step, or in asyncio.sleep.
registry_heart_beat_cancelled(l) ==
    /\ loops[l].cancel /\ loops[l].pc \in {"created", "sleep"}
    /\ loops' = [loops EXCEPT ![l].pc = "cancelled"]
    /\ UNCHANGED <<agents, agent_card_table, registered, now, last, tasks, self_agent, last_cancel, mcp_vars>>

HeartbeatNext ==
    \/ \E name \in LoopAgents : create_task(name, Card(name, "d1"))
    \/ \E l \in DOMAIN loops : registry_heart_beat_start(l)
    \/ \E l \in DOMAIN loops : registry_heart_beat_put_served(l)
    \/ \E l \in DOMAIN loops, outcome \in CallOutcomes :
           registry_heart_beat_put_returns(l, outcome)
    \/ \E l \in DOMAIN loops : registry_heart_beat_patch_served(l)
    \/ \E l \in DOMAIN loops, outcome \in CallOutcomes :
           registry_heart_beat_patch_returns(l, outcome)
    \/ \E l \in DOMAIN loops : registry_heart_beat_wake(l)
    \/ Tick

SpecHeartbeat == Init /\ [][HeartbeatNext]_vars

\* One heartbeat loop, and the cancellation of its task at any moment.
HeartbeatCancelNext ==
    \/ \E name \in LoopAgents : loops = <<>> /\ create_task(name, Card(name, "d1"))
    \/ \E l \in DOMAIN loops : registry_heart_beat_start(l)
    \/ \E l \in DOMAIN loops : registry_heart_beat_put_served(l)
    \/ \E l \in DOMAIN loops, outcome \in CallOutcomes :
           registry_heart_beat_put_returns(l, outcome)
    \/ \E l \in DOMAIN loops : registry_heart_beat_patch_served(l)
    \/ \E l \in DOMAIN loops, outcome \in CallOutcomes :
           registry_heart_beat_patch_returns(l, outcome)
    \/ \E l \in DOMAIN loops : registry_heart_beat_wake(l)
    \/ \E l \in DOMAIN loops : Task_cancel(l)
    \/ \E l \in DOMAIN loops : registry_heart_beat_cancelled(l)
    \/ Tick

SpecHeartbeatCancel == Init /\ [][HeartbeatCancelNext]_vars

\* Two agent processes run a heartbeat loop for the same name, each with its
\* own card.
TwoLoopsInit ==
    /\ agents = InMemoryAgentRegistry_init
    /\ agent_card_table = DynamoDbAgentRegistryLookup_init
    /\ registered = {}
    /\ now = 0
    /\ last = NoRequest
    /\ tasks = <<>>
    /\ self_agent = StatusAgent(0, FALSE)
    /\ last_cancel = None
    /\ servers = <<>>
    /\ allowed_agents = <<>>
    /\ mcp_table = {}
    /\ calls = <<>>
    /\ loops = <<NewLoop("beta", Card("beta", "d1")), NewLoop("beta", Card("beta", "d2"))>>

TwoLoopsNext ==
    \/ \E l \in DOMAIN loops : registry_heart_beat_start(l)
    \/ \E l \in DOMAIN loops : registry_heart_beat_put_served(l)
    \/ \E l \in DOMAIN loops, outcome \in CallOutcomes :
           registry_heart_beat_put_returns(l, outcome)
    \/ \E l \in DOMAIN loops : registry_heart_beat_patch_served(l)
    \/ \E l \in DOMAIN loops, outcome \in CallOutcomes :
           registry_heart_beat_patch_returns(l, outcome)
    \/ \E l \in DOMAIN loops : registry_heart_beat_wake(l)
    \/ Tick

SpecTwoLoops == TwoLoopsInit /\ [][TwoLoopsNext]_vars

---------------------------------------------------------------------------
(* The requests of several clients at once: the handler threads of up to   *)
(* MaxCalls requests take their steps in any order.                        *)

\* A request sent to the DynamoDB deployment alone.
DynamoDbMcpRegistryLookup_call(op, args) ==
    /\ Len(calls) < MaxCalls
    /\ calls' = Append(calls, NewCall(op, args, {"ddb"}, <<>>))
    /\ last' = NoRequest
    /\ UNCHANGED <<agents, agent_card_table, registered, now, tasks, self_agent, last_cancel,
                   servers, allowed_agents, mcp_table, loops>>

\* A request sent to the in-memory deployment alone.
InMemoryMcpRegistry_call(op, args) ==
    /\ Len(calls) < MaxCalls
    /\ calls' = Append(calls, NewCall(op, args, {"mem"}, <<>>))
    /\ last' = NoRequest
    /\ UNCHANGED <<agents, agent_card_table, registered, now, tasks, self_agent, last_cancel,
                   servers, allowed_agents, mcp_table, loops>>

\* The registry after PUT /mcp/server has been served for s1.
StoredInit ==
    /\ agents = InMemoryAgentRegistry_init
    /\ agent_card_table = DynamoDbAgentRegistryLookup_init
    /\ registered = {}
    /\ now = 0
    /\ last = NoRequest
    /\ tasks = <<>>
    /\ self_agent = StatusAgent(0, FALSE)
    /\ last_cancel = None
    /\ servers = dict_setitem(<<>>, "s1", McpServer("s1", "u1"))
    /\ allowed_agents = dict_setitem(<<>>, "s1", {})
    /\ mcp_table = DynamoDbMcpRegistryLookup_put_mcp_server({}, McpServer("s1", "u1"), None)
    /\ calls = <<>>
    /\ loops = <<>>

\* Grant and revoke requests at the DynamoDB deployment, which stores s1 and
\* not s2, with the handler threads of up to MaxCalls of them at a time.
GrantRaceNext ==
    \/ \E op \in {"enable_mcp_server_for_agent", "disable_mcp_server_for_agent"},
          name \in ServerNames, agent_name \in AgentNames :
           DynamoDbMcpRegistryLookup_call(op, <<name, agent_name>>)
    \/ \E c \in DOMAIN calls : DynamoDbMcpRegistryLookup_get_item(c)
    \/ \E c \in DOMAIN calls : DynamoDbMcpRegistryLookup_put_item(c)
    \/ \E c \in DOMAIN calls : respond(c)

SpecGrantRace == StoredInit /\ [][GrantRaceNext]_vars

\* MaxCalls requests at both deployments, which store s1 and not s2: a
\* server's definition is replaced while grant and revoke requests for it
\* are served.
PutRaceNext ==
    \/ \E u \in Urls : put_mcp_server(McpServer("s1", u))
    \/ put_mcp_server(McpServer("s2", "u1"))
    \/ \E name \in ServerNames : enable_mcp_server_for_agent(name, "alpha")
    \/ disable_mcp_server_for_agent("s1", "alpha")
    \/ \E c \in DOMAIN calls : InMemoryMcpRegistry_put_mcp_server_step(c)
    \/ \E c \in DOMAIN calls : DynamoDbMcpRegistryLookup_put_mcp_server_step(c)
    \/ \E c \in DOMAIN calls : InMemoryMcpRegistry_enable_mcp_server_for_agent_step(c)
    \/ \E c \in DOMAIN calls : InMemoryMcpRegistry_disable_mcp_server_for_agent_step(c)
    \/ \E c \in DOMAIN calls : DynamoDbMcpRegistryLookup_get_item(c)
    \/ \E c \in DOMAIN calls : DynamoDbMcpRegistryLookup_put_item(c)

SpecPutRace == StoredInit /\ [][PutRaceNext]_vars

\* The in-memory deployment under the requests of several clients: up to
\* MaxCalls handler threads at a time, over one url per server name.
MemRaceNext ==
    \/ \E name \in ServerNames :
           InMemoryMcpRegistry_call("put_mcp_server", <<McpServer(name, "u1")>>)
    \/ \E name \in ServerNames, agent_name \in AgentNames :
           InMemoryMcpRegistry_call("enable_mcp_server_for_agent", <<name, agent_name>>)
    \/ \E agent_name \in AgentNames :
           InMemoryMcpRegistry_call("get_mcp_server_for_agent", <<agent_name>>)
    \/ \E c \in DOMAIN calls : InMemoryMcpRegistry_put_mcp_server_step(c)
    \/ \E c \in DOMAIN calls : InMemoryMcpRegistry_enable_mcp_server_for_agent_step(c)
    \/ \E c \in DOMAIN calls : InMemoryMcpRegistry_get_mcp_server_for_agent_step(c)
    \/ \E c \in DOMAIN calls : respond(c)

SpecMemRace == Init /\ [][MemRaceNext]_vars

Next ==
    RegistryNext \/ ExecNext \/ ConcurrentNext \/ CancelNext \/ McpNext \/ LookupNext
        \/ HeartbeatNext \/ HeartbeatCancelNext \/ TwoLoopsNext \/ GrantRaceNext \/ PutRaceNext
        \/ MemRaceNext \/ CardsRaceNext
Spec == Init /\ [][Next]_vars

---------------------------------------------------------------------------
(* What the claims read off a task.                                        *)

IsWorking(e) == e.type = "TaskStatusUpdateEvent" /\ e.state = "working" /\ ~e.final
IsFinal(e) == e.type = "TaskStatusUpdateEvent" /\ e.final
IsArtifact(e) == e.type = "TaskArtifactUpdateEvent"
Count(q, P(_)) == Cardinality({i \in DOMAIN q : P(q[i])})

Accepted(k) == k.context_id # None /\ k.task_id # None
Ended(k) == k.pc \in {"returned", "raised"}
AttemptReturned(k) == k.agent_response # None
Rejected(k) == AttemptReturned(k) /\ k.agent_response[1].status = "rejected"
RoutingReturned(k) == k.routing_agent_response # None

\* The dict the classifier's agent_card stands for: the dict itself, or the
\* object a str parses to; None when it is neither.
CardDict(k) ==
    LET c == k.routing_agent_response[1].agent_card
        p == IF c.t = "str" THEN json_loads(c.s) ELSE c
    IN  IF p.t = "dict" THEN Some(p.d) ELSE None
NamesAgent(k) ==
    RoutingReturned(k) /\ CardDict(k) # None /\ "name" \in DOMAIN CardDict(k)[1]

\* The event sequence [working, artifact(name, text), final(state)] of task k.
IsLifecycle(k, name, text, state) ==
    /\ Len(k.event_queue) = 3
    /\ IsWorking(k.event_queue[1])
    /\ IsArtifact(k.event_queue[2])
    /\ k.event_queue[2].artifact.name = name
    /\ k.event_queue[2].artifact.text = text
    /\ IsFinal(k.event_queue[3])
    /\ k.event_queue[3].state = state
    /\ \A i \in 1..3 : /\ k.event_queue[i].context_id = k.context_id
                       /\ k.event_queue[i].task_id = k.task_id

\* The text a dict is published as: the keys in order, ", " and ": " between.
CardText(d) ==
    "{\"name\": \"" \o d.name \o "\", \"description\": \"" \o d.description \o "\"}"

---------------------------------------------------------------------------
(* C1 (as claimed).  Every RoutingAgentExecutor.execute with both ids, in  *)
(* which the attempt and (if needed) the routing call return normally,     *)
(* enqueues exactly [working, artifact, final]: the result artifact and    *)
(* the attempt's status when the attempt is not rejected, the hand-off     *)
(* artifact and the attempt's status when it is.                           *)
C1_LifecycleOrder_AsClaimed ==
    \A t \in DOMAIN tasks :
        LET k == tasks[t] IN
        (/\ k.executor = "RoutingAgentExecutor" /\ Accepted(k) /\ Ended(k)
         /\ AttemptReturned(k)
         /\ Rejected(k) => RoutingReturned(k))
        => /\ k.pc = "returned"
           /\ Len(k.event_queue) = 3
           /\ IsWorking(k.event_queue[1])
           /\ IsArtifact(k.event_queue[2])
           /\ k.event_queue[2].artifact.name =
                  (IF Rejected(k) THEN "target_agent" ELSE "current_result")
           /\ IsFinal(k.event_queue[3])
           /\ k.event_queue[3].state = k.agent_response[1].status

(* C1 (amended).  The same, for the runs in which the classifier's card is *)
(* a dict with a "name" or a str that parses to one: then the events are   *)
(* exactly [working, hand-off artifact with the card re-serialised, final  *)
(* status 'rejected']; a not-rejected attempt gives exactly [working,      *)
(* result artifact with the attempt's response, final status = attempt's   *)
(* status]; and a card that is anything else makes execute raise with the  *)
(* 'working' status alone in the queue.                                    *)
C1_LifecycleOrder ==
    \A t \in DOMAIN tasks :
        LET k == tasks[t] IN
        (k.executor = "RoutingAgentExecutor" /\ Accepted(k) /\ Ended(k)
            /\ AttemptReturned(k))
        => /\ ~Rejected(k) =>
                /\ k.pc = "returned"
                /\ IsLifecycle(k, "current_result", k.agent_response[1].response,
                               k.agent_response[1].status)
           /\ (Rejected(k) /\ NamesAgent(k)) =>
                /\ k.pc = "returned"
                /\ IsLifecycle(k, "target_agent", CardText(CardDict(k)[1]), "rejected")
           /\ (Rejected(k) /\ RoutingReturned(k) /\ ~NamesAgent(k)) =>
                /\ k.pc = "raised"
                /\ k.exc \in {"JSONDecodeError", "TypeError", "KeyError"}
                /\ Len(k.event_queue) = 1 /\ IsWorking(k.event_queue[1])

\* A rejected attempt whose rerouting succeeded has returned.
C1_Witness ==
    \E t \in DOMAIN tasks :
        /\ tasks[t].executor = "RoutingAgentExecutor" /\ tasks[t].pc = "returned"
        /\ Rejected(tasks[t]) /\ NamesAgent(tasks[t])
        /\ Len(tasks[t].event_queue) = 3

---------------------------------------------------------------------------
(* C2 (as claimed).  Every accepted task, whatever raises, ends with       *)
(* exactly one artifact, exactly one final status and exactly one          *)
(* 'working' status, the 'working' status first.                           *)
C2_OneArtifactOneFinal_AsClaimed ==
    \A t \in DOMAIN tasks :
        LET k == tasks[t] IN
        (Accepted(k) /\ Ended(k))
        => /\ Count(k.event_queue, IsArtifact) = 1
           /\ Count(k.event_queue, IsFinal) = 1
           /\ Count(k.event_queue, IsWorking) = 1
           /\ IsWorking(k.event_queue[1])

(* C2 (amended).  Every accepted task has the 'working' status exactly     *)
(* once and first, and never more than one artifact or one final status;   *)
(* a task that returned has exactly one artifact and then exactly one      *)
(* final status; a task that raised has the 'working' status alone.        *)
C2_EventCounts ==
    \A t \in DOMAIN tasks :
        LET k == tasks[t] IN
        Accepted(k)
        => /\ Count(k.event_queue, IsWorking) = 1
           /\ IsWorking(k.event_queue[1])
           /\ Count(k.event_queue, IsArtifact) <= 1
           /\ Count(k.event_queue, IsFinal) <= 1
           /\ k.pc = "returned" =>
                /\ Len(k.event_queue) = 3
                /\ IsArtifact(k.event_queue[2])
                /\ IsFinal(k.event_queue[3])
           /\ k.pc = "raised" => Len(k.event_queue) = 1

\* An accepted task of the standalone router has raised after its 'working' status.
C2_Witness ==
    \E t \in DOMAIN tasks :
        /\ Accepted(tasks[t]) /\ tasks[t].pc = "raised"
        /\ tasks[t].executor = "RoutingExecutor"
        /\ Len(tasks[t].event_queue) = 1

---------------------------------------------------------------------------
(* C3.  When the attempt reports 'rejected' and the classifier returns a   *)
(* card naming agent B, the task returns with one hand-off artifact        *)
(* ('target_agent') whose text is the card, name B included, and with no   *)
(* result artifact ('current_result').                                     *)
C3_HandoffNamesAgent ==
    \A t \in DOMAIN tasks :
        LET k == tasks[t] IN
        (k.executor = "RoutingAgentExecutor" /\ Ended(k) /\ Rejected(k) /\ NamesAgent(k))
        => /\ k.pc = "returned"
           /\ \E i \in DOMAIN k.event_queue :
                /\ IsArtifact(k.event_queue[i])
                /\ k.event_queue[i].artifact.name = "target_agent"
                /\ json_loads(k.event_queue[i].artifact.text) = PyDict(CardDict(k)[1])
                /\ k.event_queue[i].artifact.text = CardText(CardDict(k)[1])
           /\ \A i \in DOMAIN k.event_queue :
                IsArtifact(k.event_queue[i])
                    => k.event_queue[i].artifact.name # "current_result"

\* As in test_app_redirect_path: the classifier answered with the compact JSON
\* text of beta's card, and the task returned.
C3_Witness ==
    \E t \in DOMAIN tasks :
        /\ tasks[t].executor = "RoutingAgentExecutor" /\ tasks[t].pc = "returned"
        /\ Rejected(tasks[t]) /\ RoutingReturned(tasks[t])
        /\ tasks[t].routing_agent_response[1].agent_card =
               PyStr("{\"name\":\"beta\",\"description\":\"d1\"}")

---------------------------------------------------------------------------
(* C4.  If, after a rejected attempt, the classifier names an agent that   *)
(* is not in the directory at that moment (never registered, or expired),  *)
(* the task fails with DanglingRoute and no hand-off artifact is emitted.  *)
C4_DanglingRouteFails ==
    \A t \in DOMAIN tasks :
        LET k == tasks[t] IN
        (/\ k.executor = "RoutingAgentExecutor" /\ Ended(k) /\ Rejected(k) /\ NamesAgent(k)
         /\ CardDict(k)[1].name \notin k.live_at_routing)
        => /\ k.pc = "raised" /\ k.exc = "DanglingRoute"
           /\ \A i \in DOMAIN k.event_queue :
                IsArtifact(k.event_queue[i])
                    => k.event_queue[i].artifact.name # "target_agent"

---------------------------------------------------------------------------
(* C5.  A call of execute (either executor) with context_id or task_id     *)
(* None raises ValueError with the event queue empty, and neither the      *)
(* agent nor the classifier has been called.                               *)
C5_NullIdsRaiseFirst ==
    \A t \in DOMAIN tasks :
        LET k == tasks[t] IN
        (k.context_id = None \/ k.task_id = None)
        => /\ k.pc = "raised" /\ k.exc = "ValueError"
           /\ k.event_queue = <<>>
           /\ k.agent_calls = 0 /\ k.routing_calls = 0
           /\ k.agent_response = None /\ k.routing_agent_response = None

\* A call with only one of the two ids missing has raised.
C5_Witness ==
    \E t \in DOMAIN tasks :
        /\ tasks[t].context_id # None /\ tasks[t].task_id = None
        /\ tasks[t].pc = "raised"

---------------------------------------------------------------------------
(* What the claims read off the two stores.                                *)

\* The records stored under a name, per backend.
MemRecords(name) == {i \in DOMAIN agents : agents[i][1] = name}
DdbRecords(name) == {it \in agent_card_table : it.id = name}

\* A record of the name is stored and its expire_at was before the time t.
MemExpiredAt(name, t) ==
    \E i \in MemRecords(name) : int(agents[i][2].expire_at) < t
DdbExpiredAt(name, t) ==
    \E it \in DdbRecords(name) : int(it.expireAt) < t

\* The card a list body shows for a name.
Shows(body, name) == \E i \in DOMAIN body : body[i].d.name = name

---------------------------------------------------------------------------
(* C6.  Lazy expiry: a record whose stored expireAt is earlier than the    *)
(* current time is not in the answer of list (GET /agent-cards), and get   *)
(* (GET /agent-card/{name}) answers absent (404), on both backends.        *)
C6_LazyExpiry ==
    /\ last.op = "get_agent_card" =>
         /\ MemExpiredAt(last.args[1], last.at) => last.mem.status = 404
         /\ DdbExpiredAt(last.args[1], last.at) => last.ddb.status = 404
    /\ last.op = "get_agent_cards" =>
         \A name \in AgentNames :
             /\ MemExpiredAt(name, last.at) =>
                    (last.mem.status = 200 /\ ~Shows(last.mem.body, name))
             /\ DdbExpiredAt(name, last.at) =>
                    (last.ddb.status = 200 /\ ~Shows(last.ddb.body, name))

---------------------------------------------------------------------------
(* C7.  A heartbeat (PATCH /agent-card/{name}/heartbeat) for a name that   *)
(* was never registered is answered with an error, on both backends.       *)
C7_HeartbeatNeedsRegistration ==
    (last.op = "patch_agent_heartbeat" /\ last.args[1] \notin registered)
    => (last.mem.status # 200 /\ last.ddb.status # 200)

---------------------------------------------------------------------------
(* C8.  A heartbeat never creates a record: a name that was never          *)
(* registered has no record in either store, whatever heartbeats were      *)
(* sent, and list answers without it.                                      *)
C8_HeartbeatNeverCreates ==
    \A name \in AgentNames \ registered :
        /\ MemRecords(name) = {}
        /\ DdbRecords(name) = {}
        /\ InMemoryAgentRegistry_get_agent_cards(agents).exc = ""
        /\ ~Shows(InMemoryAgentRegistry_get_agent_cards(agents).val, name)
        /\ DynamoDbAgentRegistryLookup_get_agent_cards(agent_card_table).exc = ""
        /\ ~Shows(DynamoDbAgentRegistryLookup_get_agent_cards(agent_card_table).val, name)

---------------------------------------------------------------------------
(* C9.  Register is an upsert keyed by name: right after                   *)
(* PUT /agent-card/{name} each store holds exactly one record for the      *)
(* name, with the card and the expiry of that request; get returns that    *)
(* card and list shows it; and list has one entry per stored name.         *)
C9_RegisterUpserts ==
    last.op = "put_agent_card" =>
        LET name == last.args[1]
            card == last.args[2]
            expire_at == last.args[3]
            mem_list == InMemoryAgentRegistry_get_agent_cards(agents)
            ddb_list == DynamoDbAgentRegistryLookup_get_agent_cards(agent_card_table)
        IN  /\ Cardinality(MemRecords(name)) = 1
            /\ \A i \in MemRecords(name) :
                   agents[i][2] = [card |-> CardText(card), expire_at |-> expire_at]
            /\ get_agent_card_response(InMemoryAgentRegistry_get_agent_card(agents, name))
                   = [status |-> 200, body |-> <<PyDict(card)>>]
            /\ mem_list.exc = ""
            /\ \E i \in DOMAIN mem_list.val : mem_list.val[i] = PyDict(card)
            /\ Len(mem_list.val) = Cardinality(dict_keys(agents))
            /\ Cardinality(DdbRecords(name)) = 1
            /\ \A it \in DdbRecords(name) :
                   it = [id |-> name, card |-> CardText(card), expireAt |-> expire_at]
            /\ get_agent_card_response(
                   DynamoDbAgentRegistryLookup_get_agent_card(agent_card_table, name))
                   = [status |-> 200, body |-> <<PyDict(card)>>]
            /\ ddb_list.exc = ""
            /\ \E i \in DOMAIN ddb_list.val : ddb_list.val[i] = PyDict(card)
            /\ Len(ddb_list.val) = Cardinality({it.id : it \in agent_card_table})

---------------------------------------------------------------------------
(* C10.  A heartbeat on an existing record changes only that record's      *)
(* expiry: its card is unchanged, no record is added or removed, and every *)
(* other record is unchanged, on both backends.                            *)
HeartbeatFrame(name, expire_at) ==
    /\ MemRecords(name) # {} =>
         /\ Len(agents') = Len(agents)
         /\ \A i \in DOMAIN agents :
              /\ agents'[i][1] = agents[i][1]
              /\ agents[i][1] # name => agents'[i] = agents[i]
              /\ agents[i][1] = name =>
                   agents'[i][2] = [card |-> agents[i][2].card, expire_at |-> expire_at]
    /\ DdbRecords(name) # {} =>
         /\ {it \in agent_card_table' : it.id # name}
                = {it \in agent_card_table : it.id # name}
         /\ Cardinality({it \in agent_card_table' : it.id = name}) = 1
         /\ \A old \in DdbRecords(name) :
              \A new \in {it \in agent_card_table' : it.id = name} :
                  /\ DOMAIN new = DOMAIN old
                  /\ new.expireAt = expire_at
                  /\ \A a \in DOMAIN old \ {"expireAt"} : new[a] = old[a]

C10_HeartbeatChangesOnlyExpiry ==
    [][\A name \in AgentNames, e \in ExpireAts :
           patch_agent_heartbeat(name, str(e)) => HeartbeatFrame(name, str(e))]_vars

\* A heartbeat with expiry 2 has just been served for a registered name while
\* the other name is registered too, and the record, card included, carries
\* the heartbeat's expiry on both backends.
C10_Witness ==
    /\ last.op = "patch_agent_heartbeat"
    /\ registered = AgentNames
    /\ \E i \in MemRecords(last.args[1]) : agents[i][2].expire_at = last.args[2]
    /\ \E it \in DdbRecords(last.args[1]) : it.expireAt = last.args[2] /\ "card" \in DOMAIN it
    /\ last.args[2] = "2"

---------------------------------------------------------------------------
(* The tool-server registry: allowedAgents and serversFor of each backend. *)

SeqRange(q) == {q[i] : i \in DOMAIN q}
MemAllowedAgents(s) == InMemoryMcpRegistry_get_allowed_agents(allowed_agents, s)
DdbAllowedAgents(s) == DynamoDbMcpRegistryLookup_get_allowed_agents(mcp_table, s)
MemServersFor(a) ==
    {srv.name : srv \in SeqRange(
        InMemoryMcpRegistry_get_mcp_server_for_agent(servers, allowed_agents, a))}
DdbServersFor(a) ==
    {srv.name : srv \in SeqRange(
        DynamoDbMcpRegistryLookup_get_mcp_server_for_agent(mcp_table, a))}
MemHasServer(s) == InMemoryMcpRegistry_get_mcp_server(servers, s) # None
DdbHasServer(s) == DynamoDbMcpRegistryLookup_get_mcp_server(mcp_table, s) # None

\* C11: after any sequence of put(server), grant and revoke, on each backend
\* an agent a is in allowedAgents(s) if and only if s is in serversFor(a).
C11_ServersForConsistent ==
    \A s \in ServerNames, a \in AgentNames :
        /\ a \in MemAllowedAgents(s) <=> s \in MemServersFor(a)
        /\ a \in DdbAllowedAgents(s) <=> s \in DdbServersFor(a)

\* C12: grant and revoke on a server name that has no stored server are
\* answered 404 and leave the stored servers and grant sets unchanged, on
\* every backend.
C12_GrantOnMissingServerIsNotFound ==
    [][(calls # <<>> /\ calls[1].op \in {"enable_mcp_server_for_agent",
                                         "disable_mcp_server_for_agent"}) =>
          LET call == calls[1] IN
          /\ call.before.mem_server = None =>
                /\ UNCHANGED <<servers, allowed_agents>>
                /\ calls' = <<>> => call.mem.response.status = 404
          /\ call.before.ddb_server = None =>
                /\ UNCHANGED mcp_table
                /\ calls' = <<>> => call.ddb.response.status = 404]_vars

\* C13: granting is idempotent.  A grant on a stored server is answered 200,
\* adds the agent to the server's grant set and changes nothing else; a
\* grant of an agent that is already in the set leaves the grant sets and
\* the server records as they were (so two grants of a on a server without
\* grants leave {a}).  The request is served alone, from its arrival to its
\* answer.
C13_GrantIdempotent ==
    [][(calls # <<>> /\ calls[1].op = "enable_mcp_server_for_agent"
          /\ calls[1].before.mem_server # None /\ calls[1].before.ddb_server # None) =>
          LET call == calls[1]
              s == call.args[1]
              a == call.args[2]
          IN  /\ UNCHANGED servers
              /\ \A n \in ServerNames :
                    /\ DynamoDbMcpRegistryLookup_get_mcp_server(mcp_table, n)'
                          = DynamoDbMcpRegistryLookup_get_mcp_server(mcp_table, n)
                    /\ n # s => /\ MemAllowedAgents(n)' = MemAllowedAgents(n)
                                /\ DdbAllowedAgents(n)' = DdbAllowedAgents(n)
              /\ a \in call.before.mem_allowed => UNCHANGED allowed_agents
              /\ a \in call.before.ddb_allowed => UNCHANGED mcp_table
              /\ calls' = <<>> =>
                    /\ call.mem.response.status = 200 /\ call.ddb.response.status = 200
                    /\ MemAllowedAgents(s) = call.before.mem_allowed \cup {a}
                    /\ DdbAllowedAgents(s) = call.before.ddb_allowed \cup {a}]_vars

\* A second grant of the one agent a server has been granted to has been
\* served, and the grant set is still that agent alone on both backends.
C13_Witness ==
    /\ last.op = "enable_mcp_server_for_agent"
    /\ last.args = <<"s1", "alpha">>
    /\ last.before.mem_allowed = {"alpha"} /\ last.before.ddb_allowed = {"alpha"}
    /\ last.before.mem_server # None /\ last.before.ddb_server # None
    /\ MemAllowedAgents("s1") = {"alpha"} /\ DdbAllowedAgents("s1") = {"alpha"}
    /\ last.mem.status = 200 /\ last.ddb.status = 200

\* C14: a revoke on a stored server for an agent that is not in its grant set
\* (also when the server has no grants at all) is answered 200 and leaves
\* the grant sets and the server records unchanged.  The request is served
\* alone, from its arrival to its answer.
C14_RevokeAbsentIsNoOp ==
    [][(calls # <<>> /\ calls[1].op = "disable_mcp_server_for_agent"
          /\ calls[1].before.mem_server # None /\ calls[1].before.ddb_server # None) =>
          LET call == calls[1]
              a == call.args[2]
          IN  /\ a \notin call.before.mem_allowed =>
                    /\ UNCHANGED <<servers, allowed_agents>>
                    /\ calls' = <<>> => call.mem.response.status = 200
              /\ a \notin call.before.ddb_allowed =>
                    /\ UNCHANGED mcp_table
                    /\ calls' = <<>> => call.ddb.response.status = 200]_vars

\* A revoke of an agent that was not granted has been served for a stored
\* server whose grant set holds the other agent.
C14_Witness ==
    /\ last.op = "disable_mcp_server_for_agent"
    /\ last.args = <<"s1", "beta">>
    /\ last.before.mem_server # None /\ last.before.ddb_server # None
    /\ last.before.mem_allowed = {"alpha"} /\ last.before.ddb_allowed = {"alpha"}
    /\ MemAllowedAgents("s1") = {"alpha"} /\ DdbAllowedAgents("s1") = {"alpha"}
    /\ last.mem.status = 200 /\ last.ddb.status = 200

---------------------------------------------------------------------------
(* The heartbeat loop.                                                     *)

\* The loop's call in progress returned or raised in this step.
CallEnded(l) == loops[l].pc \in {"put", "patch"} /\ loops'[l].pc # loops[l].pc
\* The registry served the loop's call in progress in this step.
CallServed(l) == loops[l].pc \in {"put", "patch"} /\ ~loops[l].served /\ loops'[l].served

\* C15: a heartbeat call that fails is caught and does not end the loop.
\* However a heartbeat call ends (it returns, or it raises before or after
\* the registry served it), the loop goes on to sleep one interval, and from
\* an undisturbed sleep it goes on to the next heartbeat call; the coroutine
\* raises only out of the register call, never out of a heartbeat.
C15_HeartbeatFailureContained ==
    [][\A l \in DOMAIN loops :
          /\ loops[l].pc = "patch" /\ CallEnded(l) =>
                /\ loops'[l].pc = "sleep"
                /\ loops'[l].wake_at = now + interval_sec
                /\ loops'[l].failed \in {loops[l].failed, loops[l].failed + 1}
          /\ loops[l].pc = "sleep" /\ loops'[l].pc \notin {"sleep", "cancelled"} =>
                /\ loops'[l].pc = "patch"
                /\ loops'[l].patch_calls = loops[l].patch_calls + 1
          /\ loops'[l].pc = "raised" => loops'[l].patch_calls = 0]_vars

\* A heartbeat call failed, the loop slept, and its next heartbeat call has
\* been made and has returned.
C15_Witness ==
    \E l \in DOMAIN loops :
        /\ loops[l].failed = 1 /\ loops[l].patch_calls = 2
        /\ loops[l].pc = "sleep"
        /\ last.op = "patch_agent_heartbeat"
        /\ last.args = <<loops[l].name, str(loops[l].expire_at)>>
        /\ last.at > 0

\* C16 as claimed: one register, and every heartbeat call, the first
\* included, comes after a sleep of one interval since the loop's previous
\* write; every call has its own call of get_expire_at.
C16_SleepBeforeEveryHeartbeat ==
    \A l \in DOMAIN loops :
        /\ loops[l].put_calls <= 1
        /\ loops[l].patch_calls > 0 => loops[l].put_calls = 1
        /\ loops[l].get_expire_at_calls = loops[l].put_calls + loops[l].patch_calls
        /\ loops[l].pc = "patch" => loops[l].slept = interval_sec

\* C16: the loop makes one register call and, when that returns, repeats
\* heartbeat -> sleep(interval): the first heartbeat call follows the
\* register with no sleep in between, every later heartbeat call comes after
\* one sleep of one interval since the previous heartbeat call, and every
\* register or heartbeat call has its own call of get_expire_at.
C16_RegisterThenHeartbeatSleep ==
    \A l \in DOMAIN loops :
        /\ loops[l].put_calls <= 1
        /\ loops[l].pc \notin {"created", "cancelled"} => loops[l].put_calls = 1
        /\ loops[l].patch_calls > 0 => loops[l].put_calls = 1
        /\ loops[l].get_expire_at_calls = loops[l].put_calls + loops[l].patch_calls
        /\ loops[l].pc = "patch" /\ loops[l].patch_calls = 1 => loops[l].slept = 0
        /\ loops[l].pc = "patch" /\ loops[l].patch_calls > 1 => loops[l].slept = interval_sec
        /\ loops[l].pc = "sleep" => loops[l].patch_calls >= 1 /\ loops[l].wake_at <= now + interval_sec
        /\ loops[l].pc = "raised" => loops[l].patch_calls = 0

\* The loop is in its third heartbeat call, after one register, two sleeps
\* and three calls of get_expire_at for the heartbeats.
C16_Witness ==
    \E l \in DOMAIN loops :
        /\ loops[l].pc = "patch" /\ loops[l].patch_calls = 3 /\ loops[l].put_calls = 1
        /\ loops[l].get_expire_at_calls = 4
        /\ loops[l].slept = interval_sec
        /\ loops[l].expire_at = now + expire_after

\* C19: cancelling stops the loop at a suspension point only.  A register or
\* heartbeat call that has started ends by returning or raising, also when
\* a cancellation was requested meanwhile; the loop becomes cancelled only
\* from before its first step or from its sleep; a loop that is suspended
\* with a cancellation requested starts no call; and a cancelled loop makes
\* no further call.
C19_CancelOnlyAtSleep ==
    [][\A l \in DOMAIN loops :
          /\ CallEnded(l) => loops'[l].pc \in {"patch", "sleep", "raised"}
          /\ loops'[l].pc = "cancelled" /\ loops[l].pc # "cancelled" =>
                loops[l].cancel /\ loops[l].pc \in {"created", "sleep"}
          /\ loops[l].cancel /\ loops[l].pc \in {"created", "sleep"} =>
                loops'[l].pc \in {loops[l].pc, "cancelled"}
          /\ loops[l].pc = "cancelled" => loops'[l] = loops[l]]_vars

\* A cancellation was requested while the first heartbeat call was running;
\* the call returned, its expiry is stored, and the loop was cancelled in
\* the sleep that followed.
C19_Witness ==
    \E l \in DOMAIN loops :
        /\ loops[l].pc = "cancelled" /\ loops[l].cancel_pc = "patch"
        /\ loops[l].put_calls = 1 /\ loops[l].patch_calls = 1 /\ loops[l].failed = 0
        /\ last.op = "patch_agent_heartbeat"
        /\ last.args = <<loops[l].name, str(loops[l].expire_at)>>
        /\ MemRecords(loops[l].name) # {}
        /\ \A i \in MemRecords(loops[l].name) :
               agents[i][2].expire_at = str(loops[l].expire_at)
        /\ \A it \in DdbRecords(loops[l].name) : it.expireAt = str(loops[l].expire_at)

\* The records a backend holds for a name.
MemRecordsOf(name) == {agents[i][2] : i \in MemRecords(name)}
DdbRecordsOf(name) == {[card |-> it.card, expire_at |-> it.expireAt] : it \in DdbRecords(name)}

\* C18: two heartbeat loops run for one agent name.  The store changes only
\* when the registry serves a call of one of the loops, and then each backend
\* holds exactly one record for the name: a register that is served leaves
\* its own card and expiry, a heartbeat that is served leaves the card that
\* was there (that of the register served most recently) with its own
\* expiry; every call that reached the registry was answered 200, whatever
\* the other loop wrote before; a call's end touches neither the store nor
\* the other loop, and a loop raises only out of its own register call.
C18_LastWriteWins ==
    [][/\ \A l \in DOMAIN loops :
            /\ CallServed(l) =>
                  LET loop == loops[l]
                      own == [card |-> json_dumps(loop.agent_card),
                              expire_at |-> str(loop.expire_at)]
                  IN  /\ \A k \in DOMAIN loops \ {l} : loops'[k] = loops[k]
                      /\ Cardinality(MemRecords(loop.name)') = 1
                      /\ Cardinality(DdbRecords(loop.name)') = 1
                      /\ loop.pc = "put" =>
                            /\ MemRecordsOf(loop.name)' = {own}
                            /\ DdbRecordsOf(loop.name)' = {own}
                      /\ loop.pc = "patch" =>
                            /\ MemRecordsOf(loop.name)' =
                                   {[r EXCEPT !.expire_at = own.expire_at] :
                                        r \in MemRecordsOf(loop.name)}
                            /\ DdbRecordsOf(loop.name)' =
                                   {[r EXCEPT !.expire_at = own.expire_at] :
                                        r \in DdbRecordsOf(loop.name)}
                      /\ last'.mem.status = 200 /\ last'.ddb.status = 200
            /\ CallEnded(l) =>
                  /\ \A k \in DOMAIN loops \ {l} : loops'[k] = loops[k]
                  /\ loops'[l].pc = "raised" => loops[l].pc = "put"
       /\ (\A l \in DOMAIN loops : ~CallServed(l)) => UNCHANGED <<agents, agent_card_table>>]_vars

\* The first loop registered, then the second; the first loop then slept and
\* sent a heartbeat: the one record carries the second loop's card and the
\* first loop's later expiry, and both loops are running.
C18_Witness ==
    /\ Len(loops) = 2 /\ loops[1].name = loops[2].name
    /\ loops[1].pc = "sleep" /\ loops[1].patch_calls = 2 /\ loops[1].failed = 0
    /\ loops[2].pc \in {"patch", "sleep"} /\ loops[2].expire_at < loops[1].expire_at
    /\ MemRecordsOf("beta") = {[card |-> json_dumps(Card("beta", "d2")),
                                expire_at |-> str(loops[1].expire_at)]}
    /\ DdbRecordsOf("beta") = MemRecordsOf("beta")
    /\ last.op = "patch_agent_heartbeat"

---------------------------------------------------------------------------
(* Concurrent grants on the DynamoDB backend.                              *)

\* The grant set of the item a call read.
ReadSet(call) ==
    IF call.ddb.item # None /\ ALLOWED_AGENTS_FIELD \in DOMAIN call.ddb.item[1]
    THEN call.ddb.item[1][ALLOWED_AGENTS_FIELD]
    ELSE {}

\* C17: grant and revoke on the key-value backend are a read-modify-write
\* that is not atomic.  The write of a call that changes the set stores the
\* set the call read with its own agent added (removed), whatever other
\* calls have written since the read, so that two concurrent grants on one
\* stored server can both return with one of the two agents missing.
C17_GrantIsStaleReadModifyWrite ==
    [][\A c \in DOMAIN calls :
          (/\ Len(calls') = Len(calls)
           /\ calls[c].ddb.pc = "put_item" /\ calls'[c].ddb.pc = "done") =>
              LET call == calls[c]
                  read == ReadSet(call)
                  server_name == call.args[1]
                  agent_name == call.args[2]
                  enable == call.op = "enable_mcp_server_for_agent"
              IN  /\ calls'[c].ddb.response.status = 200
                  /\ enable /\ agent_name \notin read =>
                        DdbAllowedAgents(server_name)' = read \cup {agent_name}
                  /\ ~enable /\ agent_name \in read =>
                        DdbAllowedAgents(server_name)' = read \ {agent_name}
                  /\ enable /\ agent_name \in read => UNCHANGED mcp_table
                  /\ ~enable /\ agent_name \notin read => UNCHANGED mcp_table]_vars

\* The lost update: grant(s1, alpha) and grant(s1, beta) both read the stored
\* server without grants and both have returned 200, and allowedAgents(s1)
\* is {beta}: alpha's grant is lost.
C17_Witness ==
    /\ Len(calls) = 2
    /\ \A c \in DOMAIN calls :
          /\ calls[c].op = "enable_mcp_server_for_agent" /\ calls[c].args[1] = "s1"
          /\ calls[c].ddb.pc = "done" /\ calls[c].ddb.response.status = 200
          /\ calls[c].ddb.item # None /\ ReadSet(calls[c]) = {}
    /\ calls[1].args[2] = "alpha" /\ calls[2].args[2] = "beta"
    /\ DdbAllowedAgents("s1") = {"beta"}

---------------------------------------------------------------------------
(* The classifier call of RoutingAgentExecutor.                            *)

\* The hand-off artifacts in the event queue of task k.
Handoffs(k) ==
    {k.event_queue[i].artifact : i \in {j \in DOMAIN k.event_queue :
        IsArtifact(k.event_queue[j]) /\ k.event_queue[j].artifact.name = "target_agent"}}

\* C20: in one RoutingAgentExecutor task the classifier is called once when
\* the attempt answered 'rejected' and not at all otherwise, never before the
\* attempt has returned; and the hand-off a task publishes is made from the
\* answer of the task's own classifier call, never from an earlier task's.
C20_ClassifierOncePerRejectedTask ==
    \A t \in DOMAIN tasks :
        LET k == tasks[t]
        IN  /\ k.routing_calls <= 1 /\ k.agent_calls <= 1
            /\ k.routing_calls = 1 => Rejected(k) /\ k.agent_calls = 1
            /\ Rejected(k) /\ k.pc # "routing_agent" => k.routing_calls = 1
            /\ Rejected(k) /\ k.pc = "routing_agent" => k.routing_calls = 0
            /\ ~Rejected(k) => k.routing_calls = 0 /\ Handoffs(k) = {}
            /\ k.routing_calls = 0 => ~RoutingReturned(k) /\ Handoffs(k) = {}
            /\ \A a \in Handoffs(k) :
                  /\ NamesAgent(k)
                  /\ a.text = CardText(CardDict(k)[1])

\* Two tasks in a row were rejected and handed off, each after one classifier
\* call of its own, and the second task's hand-off names another agent than
\* the first task's.
C20_Witness ==
    /\ Len(tasks) = 2
    /\ \A t \in 1..2 :
          /\ tasks[t].pc = "returned" /\ Rejected(tasks[t])
          /\ tasks[t].routing_calls = 1 /\ tasks[t].agent_calls = 1
          /\ Cardinality(Handoffs(tasks[t])) = 1
    /\ Handoffs(tasks[1]) = {h \in Handoffs(tasks[1]) : h.text = CardText(Card("beta", "d1"))}
    /\ Handoffs(tasks[2]) = {h \in Handoffs(tasks[2]) : h.text = CardText(Card("ghost", "d1"))}

---------------------------------------------------------------------------
\* The exception the rejected branch of RoutingAgentExecutor.execute raises
\* for the classifier's card of task k: json.loads fails on the str, the
\* parsed value is not a dict, or the dict has no "name".
ReroutingError(k) ==
    LET c == k.routing_agent_response[1].agent_card
        p == IF c.t = "str" THEN json_loads(c.s) ELSE c
    IN  IF p = JSONDecodeError THEN "JSONDecodeError"
        ELSE IF p.t # "dict" THEN "TypeError"
        ELSE IF "name" \notin DOMAIN p.d THEN "KeyError"
        ELSE ""

\* C21: when rerouting fails in RoutingAgentExecutor.execute after a rejected
\* attempt (the classifier raises, its card is a str that does not parse, or
\* the card names no agent), execute raises that error at once and the task's
\* queue holds the 'working' status alone: no artifact and no final status.
C21_ReroutingFailurePropagates ==
    \A t \in DOMAIN tasks :
        LET k == tasks[t]
        IN  /\ (k.executor = "RoutingAgentExecutor" /\ Rejected(k) /\ RoutingReturned(k)
                    /\ ~NamesAgent(k))
               => /\ k.pc = "raised"
                  /\ k.exc = ReroutingError(k)
                  /\ k.exc \in {"JSONDecodeError", "TypeError", "KeyError"}
                  /\ Len(k.event_queue) = 1 /\ IsWorking(k.event_queue[1])
                  /\ k.artifact = None
            /\ (k.executor = "RoutingAgentExecutor" /\ Rejected(k) /\ k.routing_calls = 1
                    /\ ~RoutingReturned(k))
               => /\ k.pc = "raised" /\ k.exc = "AgentError"
                  /\ Len(k.event_queue) = 1 /\ IsWorking(k.event_queue[1])
                  /\ k.artifact = None

\* A rejected task whose classifier answered with text that is not JSON has
\* raised JSONDecodeError with only the 'working' status published.
C21_Witness ==
    \E t \in DOMAIN tasks :
        LET k == tasks[t]
        IN  /\ k.executor = "RoutingAgentExecutor" /\ Rejected(k) /\ RoutingReturned(k)
            /\ k.routing_agent_response[1].agent_card = PyStr("beta")
            /\ k.pc = "raised" /\ k.exc = "JSONDecodeError"
            /\ Len(k.event_queue) = 1

---------------------------------------------------------------------------
\* C22: concurrent runs on one RoutingAgentExecutor share no mutable state:
\* the StatusAgent instance a run calls for its attempt is the one self.agent
\* named when the run's execute was called or the one the run's own
\* reinitialize_agent_with_tools built, never one that another run assigned
\* to self.agent in the meantime.
C22_RunsShareNoAgentInstance ==
    \A t \in DOMAIN tasks :
        LET k == tasks[t]
        IN  (k.executor = "RoutingAgentExecutor" /\ k.agent # None)
            => \/ k.agent[1] = k.agent_at_call
               \/ k.agent[1].built_by = t

---------------------------------------------------------------------------
\* C23: in RoutingExecutor.execute with both ids, when the classifier returns
\* a card for agent B (a dict with B's name, or a str that parses to one), the
\* task's events are, in this order and with nothing else, the non-final
\* 'working' status, one 'target_agent' artifact whose text is B's card, and
\* one final status with the state the classifier reported; and execute
\* returns.
C23_RouterHandoffLifecycle ==
    \A t \in DOMAIN tasks :
        LET k == tasks[t]
        IN  (k.executor = "RoutingExecutor" /\ RoutingReturned(k) /\ NamesAgent(k))
            => LET q == k.event_queue
                   full == <<TaskStatusUpdateEvent("working", FALSE, k.context_id, k.task_id),
                             TaskArtifactUpdateEvent(
                                 new_text_artifact("target_agent",
                                                   "New target agent for request.",
                                                   CardText(CardDict(k)[1])),
                                 k.context_id, k.task_id),
                             TaskStatusUpdateEvent(k.routing_agent_response[1].status, TRUE,
                                                   k.context_id, k.task_id)>>
               IN  /\ Accepted(k)
                   /\ k.pc \in {"artifact", "final", "returned"}
                   /\ k.pc = "artifact" => q = SubSeq(full, 1, 1)
                   /\ k.pc = "final" => q = SubSeq(full, 1, 2)
                   /\ k.pc = "returned" => q = full
                   /\ CardDict(k)[1].name \in {"beta", "ghost"}

\* The standalone router has returned after the classifier answered with a
\* JSON str of beta's card and the state 'completed': three events, the
\* second the 'target_agent' artifact naming beta, the third final 'completed'.
C23_Witness ==
    \E t \in DOMAIN tasks :
        LET k == tasks[t]
        IN  /\ k.executor = "RoutingExecutor" /\ k.pc = "returned"
            /\ k.routing_agent_response[1].agent_card.t = "str"
            /\ k.routing_agent_response[1].status = "completed"
            /\ IsLifecycle(k, "target_agent", CardText(Card("beta", "d1")), "completed")

---------------------------------------------------------------------------
\* C24: every cancel() call on either executor, whatever the state of the
\* task, raises NotImplementedError, and the step of the call enqueues no
\* event and changes neither the tasks, nor self.agent, nor the registry.
C24_CancelNotImplemented ==
    [][last_cancel' # last_cancel
       => /\ last_cancel'[1].exc = "NotImplementedError"
          /\ last_cancel'[1].executor \in {"RoutingAgentExecutor", "RoutingExecutor"}
          /\ last_cancel'[1].executor = tasks[last_cancel'[1].task].executor
          /\ last_cancel'[1].pc = tasks[last_cancel'[1].task].pc
          /\ UNCHANGED <<tasks, self_agent, agents, agent_card_table, registered, last,
                         mcp_vars, loops>>]_vars

\* cancel was called on a RoutingExecutor task waiting for the classifier,
\* after the 'working' status: the call raised and the queue still holds that
\* one event.
C24_Witness ==
    /\ last_cancel # None
    /\ last_cancel[1].executor = "RoutingExecutor"
    /\ last_cancel[1].pc = "routing_agent"
    /\ last_cancel[1].exc = "NotImplementedError"
    /\ Len(tasks[last_cancel[1].task].event_queue) = 1
    /\ tasks[last_cancel[1].task].pc = "routing_agent"

---------------------------------------------------------------------------
\* The tool-server names some PUT /mcp/server was sent for: servers are never
\* deleted, so these are the names the in-memory dict holds and the name of
\* a PUT /mcp/server that is being served.
WrittenServers ==
    {s \in ServerNames : MemHasServer(s)}
        \cup {calls[c].args[1].name : c \in {d \in DOMAIN calls : calls[d].op = "put_mcp_server"}}

\* C25: a get for a key that was never written is answered 'not found' and
\* never with an error.  For an agent name no PUT /agent-card has registered
\* and a server name no PUT /mcp/server has stored, on both backends: the
\* storage's get_agent_card / get_mcp_server return None, the endpoints answer
\* 404, the client's get_agent_card returns None; and the read changes no
\* stored state.
C25_GetOfUnwrittenKeyIsNotFound ==
    /\ [](/\ \A n \in AgentNames \ registered :
                /\ InMemoryAgentRegistry_get_agent_card(agents, n) = None
                /\ DynamoDbAgentRegistryLookup_get_agent_card(agent_card_table, n) = None
          /\ \A s \in ServerNames \ WrittenServers :
                /\ InMemoryMcpRegistry_get_mcp_server(servers, s) = None
                /\ DynamoDbMcpRegistryLookup_get_mcp_server(mcp_table, s) = None
          /\ (last.op = "get_agent_card" /\ last.args[1] \notin registered)
             => /\ last.mem.status = 404 /\ last.ddb.status = 404
                /\ AgentRegistryLookup_get_agent_card(last.mem) = Return(None)
                /\ AgentRegistryLookup_get_agent_card(last.ddb) = Return(None)
          /\ (last.op = "get_mcp_server" /\ last.args[1] \notin WrittenServers)
             => last.mem.status = 404 /\ last.ddb.status = 404)
    /\ [][(last' # last /\ last'.op \in {"get_agent_card", "get_mcp_server"})
          => UNCHANGED <<agents, agent_card_table, registered, servers, allowed_agents,
                         mcp_table>>]_vars

\* GET /agent-card/alpha was answered 404 by both deployments while beta was
\* registered, alpha never was, and the DynamoDB table holds an item for alpha
\* that a heartbeat made.
C25_Witness ==
    /\ last.op = "get_agent_card" /\ last.args = <<"alpha">>
    /\ registered = {"beta"}
    /\ last.mem.status = 404 /\ last.ddb.status = 404
    /\ table_get_item(agent_card_table, "alpha") # None
    /\ table_get_item(agent_card_table, "beta") # None

---------------------------------------------------------------------------
\* The classifier of task k answered with a str that json.loads rejects.
CardFailsToParse(k) ==
    /\ RoutingReturned(k)
    /\ k.routing_agent_response[1].agent_card.t = "str"
    /\ json_loads(k.routing_agent_response[1].agent_card.s) = JSONDecodeError

\* What RoutingAgentExecutor.execute does with such an answer: it raises after
\* the 'working' status, with no artifact and no final status.
RoutingAgentExecutorRaisesOn(k) ==
    /\ k.pc = "raised" /\ k.exc = "JSONDecodeError"
    /\ Len(k.event_queue) = 1 /\ IsWorking(k.event_queue[1])

\* C26 (as claimed): in RoutingExecutor.execute a classifier answer that is a
\* str failing to parse is no failure: execute returns after [working, one
\* 'current_result' artifact whose text is the raw classifier string, final
\* status with the classifier's state]; in RoutingAgentExecutor.execute the
\* same answer makes execute raise.
C26_UnparsedCardIsRawResult_AsClaimed ==
    \A t \in DOMAIN tasks :
        LET k == tasks[t]
        IN  (CardFailsToParse(k) /\ Ended(k))
            => IF k.executor = "RoutingExecutor"
               THEN /\ k.pc = "returned"
                    /\ IsLifecycle(k, "current_result",
                                   k.routing_agent_response[1].agent_card.s,
                                   k.routing_agent_response[1].status)
               ELSE RoutingAgentExecutorRaisesOn(k)

\* C26 (amended): the same, with the artifact's text being the raw classifier
\* string when that string is not empty, and the fixed text "No agent found to
\* handle the request." when it is empty.
C26_UnparsedCardIsResult ==
    \A t \in DOMAIN tasks :
        LET k == tasks[t]
        IN  /\ (CardFailsToParse(k) /\ Ended(k))
               => IF k.executor = "RoutingExecutor"
                  THEN LET raw == k.routing_agent_response[1].agent_card.s
                       IN  /\ k.pc = "returned"
                           /\ IsLifecycle(k, "current_result",
                                  IF raw # "" THEN raw
                                  ELSE "No agent found to handle the request.",
                                  k.routing_agent_response[1].status)
                           /\ k.event_queue[2].artifact.description =
                                  "Error message from routing agent."
                  ELSE RoutingAgentExecutorRaisesOn(k)
            /\ (CardFailsToParse(k) /\ k.executor = "RoutingExecutor")
               => k.pc \in {"artifact", "final", "returned"} /\ k.exc = ""

\* The standalone router returned after the classifier answered with the
\* empty string: the artifact carries the fixed text.
C26_Witness ==
    \E t \in DOMAIN tasks :
        LET k == tasks[t]
        IN  /\ k.executor = "RoutingExecutor" /\ k.pc = "returned"
            /\ CardFailsToParse(k)
            /\ k.routing_agent_response[1].agent_card.s = ""
            /\ k.event_queue[2].artifact.text = "No agent found to handle the request."

---------------------------------------------------------------------------
\* C27: the grant set of a tool server is changed only by grant and revoke:
\* a PUT /mcp/server for a server name that has grants leaves
\* allowedAgents(name) as it was, on the in-memory and on the DynamoDB backend.
C27_PutServerKeepsGrants ==
    last.op = "put_mcp_server" =>
        /\ MemAllowedAgents(last.args[1].name) = last.before.mem_allowed
        /\ DdbAllowedAgents(last.args[1].name) = last.before.ddb_allowed

---------------------------------------------------------------------------
\* C28: when the register call of registry_heart_beat raises, the coroutine
\* raises in the same step and stays ended: the loop is never entered, so this
\* loop instance makes no heartbeat call and no sleep, and it has called
\* get_expire_at once, for the register.
C28_RegisterFailureSurfaces ==
    /\ [](\A l \in DOMAIN loops :
             /\ loops[l].register_failed
                => /\ loops[l].pc = "raised"
                   /\ loops[l].put_calls = 1 /\ loops[l].patch_calls = 0
                   /\ loops[l].get_expire_at_calls = 1
                   /\ loops[l].failed = 0 /\ loops[l].slept = 0
             /\ loops[l].pc = "raised" => loops[l].register_failed)
    /\ [][\A l \in DOMAIN loops :
             /\ loops[l].pc = "raised"
                => /\ loops'[l].pc = "raised"
                   /\ loops'[l].patch_calls = 0
             /\ (~loops[l].register_failed /\ loops'[l].register_failed)
                => /\ loops[l].pc = "put" /\ loops'[l].pc = "raised"
                   /\ UNCHANGED <<agents, agent_card_table, registered>>]_vars

\* A loop's register call raised while the registry held no record of the
\* agent: the coroutine has ended with no heartbeat call made.
C28_Witness ==
    \E l \in DOMAIN loops :
        /\ loops[l].register_failed /\ loops[l].pc = "raised"
        /\ loops[l].put_calls = 1 /\ loops[l].patch_calls = 0
        /\ loops[l].name \notin registered

---------------------------------------------------------------------------
\* C29: the in-memory and the DynamoDB backend are observationally
\* equivalent: every request is answered by both deployments with the same
\* status and the same result (a list result with the same members, whatever
\* their order).
C29_BackendsEquivalent ==
    /\ last.mem.status = last.ddb.status
    /\ IF last.op \in {"get_mcp_servers", "get_mcp_server_for_agent", "get_agent_cards"}
       THEN SeqRange(last.mem.body) = SeqRange(last.ddb.body)
       ELSE last.mem.body = last.ddb.body

---------------------------------------------------------------------------
\* C30: grant and revoke never change a tool server's stored definition, also
\* when interleaved with a put(server') for the same name: once the put has
\* returned and every grant or revoke call has returned, get(name) returns
\* server', on both backends.
C30_GrantKeepsServerDefinition ==
    \A c \in DOMAIN calls :
        (/\ calls[c].op = "put_mcp_server"
         /\ \A d \in DOMAIN calls :
               /\ calls[d].mem.pc = "done" /\ calls[d].ddb.pc = "done"
               /\ d # c => calls[d].op # "put_mcp_server")
        => /\ InMemoryMcpRegistry_get_mcp_server(servers, calls[c].args[1].name)
                  = Some(calls[c].args[1])
           /\ DynamoDbMcpRegistryLookup_get_mcp_server(mcp_table, calls[c].args[1].name)
                  = Some(calls[c].args[1])

---------------------------------------------------------------------------
\* C31: every record of the agent store has a card, on both backends, so
\* list (GET /agent-cards) never fails on a stored record, whatever register
\* and heartbeat requests came before, heartbeats for names that were never
\* registered included.
C31_EveryRecordHasCard ==
    /\ \A i \in DOMAIN agents : "card" \in DOMAIN agents[i][2]
    /\ \A it \in agent_card_table : "card" \in DOMAIN it
    /\ last.op = "get_agent_cards" => last.mem.status = 200 /\ last.ddb.status = 200

---------------------------------------------------------------------------
\* C32: revoking the only authorized agent of a stored server leaves the
\* server record as it was: right after the revoke, on each backend, the
\* request was answered 200, get(s) returns the server it returned before,
\* allowedAgents(s) is the empty set and s is not in serversFor(a).
C32_RevokeLastAgentKeepsServer ==
    last.op = "disable_mcp_server_for_agent"
    => LET s == last.args[1]
           a == last.args[2]
       IN  /\ (last.before.mem_server # None /\ last.before.mem_allowed = {a})
              => /\ last.mem.status = 200
                 /\ InMemoryMcpRegistry_get_mcp_server(servers, s) = last.before.mem_server
                 /\ MemAllowedAgents(s) = {}
                 /\ s \notin MemServersFor(a)
           /\ (last.before.ddb_server # None /\ last.before.ddb_allowed = {a})
              => /\ last.ddb.status = 200
                 /\ DynamoDbMcpRegistryLookup_get_mcp_server(mcp_table, s)
                        = last.before.ddb_server
                 /\ DdbAllowedAgents(s) = {}
                 /\ s \notin DdbServersFor(a)

\* alpha, the one agent granted s1, has been revoked on both backends while
\* s2 is still granted to alpha: s1 is stored with an empty grant set and
\* serversFor(alpha) is s2 alone.
C32_Witness ==
    /\ last.op = "disable_mcp_server_for_agent" /\ last.args = <<"s1", "alpha">>
    /\ last.before.mem_server # None /\ last.before.ddb_server # None
    /\ last.before.mem_allowed = {"alpha"} /\ last.before.ddb_allowed = {"alpha"}
    /\ MemHasServer("s1") /\ DdbHasServer("s1")
    /\ MemAllowedAgents("s1") = {} /\ DdbAllowedAgents("s1") = {}
    /\ MemServersFor("alpha") = {"s2"} /\ DdbServersFor("alpha") = {"s2"}

====
